---- MODULE Spec2Model ----
(***************************************************************************)
(* Model of the agricultural advisory backend:                             *)
(*   - backend/app/api/weather.py       _generate_weather_advisory         *)
(*   - backend/app/ml/disease_detector.py  CropDiseaseDetector             *)
(*   - backend/app/ml/image_processor.py   ImageProcessor.validate_image   *)
(*                                                                         *)
(* Python strings that the code inspects character by character (lower(),  *)
(* title(), the `in` substring test) are sequences of one-character        *)
(* strings; message texts that are only stored are TLA+ strings.           *)
(* Temperatures, humidities and precipitations are integers in the code's  *)
(* own units; probabilities and confidences are integers in hundredths.    *)
(***************************************************************************)
EXTENDS Integers, Sequences, FiniteSets, TLC

VARIABLES
    weather,               \* the weather dict handed to _generate_weather_advisory
    crop_type,             \* the crop_type argument of the request
    advisory,              \* the advisory dict returned: {} before the call, {dict} after
    image_data,            \* the uploaded image (what PIL would find in the bytes)
    validation,            \* the (is_valid, error_msg) returned by validate_image: {}, {tuple}
    model,                 \* CropDiseaseDetector.model: {} for None, {model} when loaded
    confidence_threshold,  \* CropDiseaseDetector.confidence_threshold (hundredths)
    detection,             \* the dict returned by detect_disease: {} before, {dict} after
    router,                \* the API router whose endpoints are exercised
    clock,                 \* the current time, in ticks
    db,                    \* the relational store: one sequence of rows per table
    req,                   \* the request being handled: {} when none, {its frame} otherwise
    calls,                 \* every outbound call made so far, in order
    tts_job,               \* the synthesis job handed to the executor: its state
    resp,                  \* the response of the last finished request: {} or {response}
    nreq,                  \* the number of requests started so far
    args,                  \* the arguments of the helper function being called
    returned               \* what that call returned: {} before it returns, {value} after

\* the state of the calls modelled as pure functions
pureVars == <<weather, crop_type, advisory, image_data, validation,
              model, confidence_threshold, detection, args, returned>>

\* the state of the HTTP API
apiVars == <<router, clock, db, req, calls, tts_job, resp, nreq>>

vars == <<weather, crop_type, advisory, image_data, validation,
          model, confidence_threshold, detection,
          router, clock, db, req, calls, tts_job, resp, nreq, args, returned>>

NoValue == "NoValue"

\* no helper function is called on its own
NoHelperCall ==
    /\ args = NoValue
    /\ returned = {}

\* no API request is served
ApiIdle ==
    /\ router = "none"
    /\ clock = 0
    /\ db = NoValue
    /\ req = {}
    /\ calls = <<>>
    /\ tts_job = "none"
    /\ resp = {}
    /\ nreq = 0

-----------------------------------------------------------------------------
(* Python str methods, on sequences of characters.                         *)

UpperCase == <<"A","B","C","D","E","F","G","H","I","J","K","L","M",
               "N","O","P","Q","R","S","T","U","V","W","X","Y","Z">>
LowerCase == <<"a","b","c","d","e","f","g","h","i","j","k","l","m",
               "n","o","p","q","r","s","t","u","v","w","x","y","z">>

IndexIn(c, alphabet) ==
    IF \E i \in 1..Len(alphabet) : alphabet[i] = c
    THEN CHOOSE i \in 1..Len(alphabet) : alphabet[i] = c
    ELSE 0

IsLetter(c) == IndexIn(c, UpperCase) > 0 \/ IndexIn(c, LowerCase) > 0

LowerChar(c) == IF IndexIn(c, UpperCase) > 0 THEN LowerCase[IndexIn(c, UpperCase)] ELSE c

UpperChar(c) == IF IndexIn(c, LowerCase) > 0 THEN UpperCase[IndexIn(c, LowerCase)] ELSE c

\* str.lower()
Lower(s) == [i \in 1..Len(s) |-> LowerChar(s[i])]

\* str.title(): the first letter of every run of letters upper-cased, the rest lower-cased
Title(s) ==
    [i \in 1..Len(s) |->
        IF i = 1 \/ ~IsLetter(s[i - 1]) THEN UpperChar(s[i]) ELSE LowerChar(s[i])]

\* the Python test  `sub in s`
Contains(s, sub) ==
    \E i \in 1..(Len(s) - Len(sub) + 1) : SubSeq(s, i, i + Len(sub) - 1) = sub

-----------------------------------------------------------------------------
(* Words the advisory generator looks for, and the words of the inputs.    *)

W_rain    == <<"r","a","i","n">>
W_clear   == <<"c","l","e","a","r">>
W_storm   == <<"s","t","o","r","m">>
W_thunder == <<"t","h","u","n","d","e","r">>
W_rice    == <<"r","i","c","e">>
W_wheat   == <<"w","h","e","a","t">>
W_maize   == <<"m","a","i","z","e">>
W_cloudy  == <<"c","l","o","u","d","y">>
W_with    == <<" ","w","i","t","h"," ">>
W_sky     == <<" ","s","k","y">>
W_light   == <<"l","i","g","h","t"," ">>
W_then    == <<" ","t","h","e","n"," ">>
W_sand    == <<"s","a","n","d">>
W_title   == <<"W","e","a","t","h","e","r"," ","A","d","v","i","s","o","r","y",
               " ","f","o","r"," ">>

\* The texts the generator appends.
RecCold        == "Cold weather detected. Consider covering young plants."
WarnFrost      == "Risk of frost damage to tender crops."
RecHot         == "Hot weather detected. Increase irrigation frequency."
WarnHeat       == "High temperature stress on crops."
OppOptimal     == "Optimal temperature range for most crops."
RecHumid       == "High humidity detected. Monitor for fungal diseases."
WarnFungal     == "Increased risk of fungal infections."
RecLowHumidity == "Low humidity detected. Ensure adequate irrigation."
RecDrainage    == "Heavy rainfall detected. Check drainage systems."
WarnWaterlog   == "Risk of waterlogging and root diseases."
RecDry         == "Dry conditions detected. Increase irrigation."
RecPostpone    == "Rainfall expected. Postpone fertilizer application."
OppClear       == "Clear weather ideal for field operations."
WarnStorm      == "Storm conditions expected. Secure equipment and structures."
WarnRiceBlast  == "Conditions favorable for rice blast disease."
RecRiceBlast   == "Apply preventive fungicide for rice blast."
WarnWheat      == "Hot and dry conditions may cause wheat stress."
RecWheat       == "Ensure adequate soil moisture for wheat."

\* The thresholds of the rules.
ColdBelow        == 10
HotAbove         == 35
OptimalLow       == 20
OptimalHigh      == 30
HumidAbove       == 80
LowHumidityBelow == 40
HeavyRainAbove   == 10
DryHumidityBelow == 50
RiceHumidAbove   == 70
RiceTempAbove    == 25
WheatTempAbove   == 30
WheatHumidBelow  == 50
HighWarnings     == 2

Elems(seq) == {seq[i] : i \in 1..Len(seq)}

AddRec(a, text)  == [a EXCEPT !.recommendations = Append(@, text)]
AddWarn(a, text) == [a EXCEPT !.warnings = Append(@, text)]
AddOpp(a, text)  == [a EXCEPT !.opportunities = Append(@, text)]

\* advisory = {"title": ..., "priority": "normal", ...}
NewAdvisory(crop) ==
    [title           |-> W_title \o Title(crop),
     priority        |-> "normal",
     recommendations |-> <<>>,
     warnings        |-> <<>>,
     opportunities   |-> <<>>]

\* TemperatureRules with the optimal range taken exclusive of its bounds
TemperatureRules_ExclusiveOptimal(a, temperature) ==
    IF temperature < ColdBelow THEN AddWarn(AddRec(a, RecCold), WarnFrost)
    ELSE IF temperature > HotAbove THEN AddWarn(AddRec(a, RecHot), WarnHeat)
    ELSE IF OptimalLow < temperature /\ temperature < OptimalHigh
         THEN AddOpp(a, OppOptimal)
    ELSE a

\* if temperature < 10 ... elif temperature > 35 ... elif 20 <= temperature <= 30
TemperatureRules(a, temperature) ==
    IF temperature < ColdBelow THEN AddWarn(AddRec(a, RecCold), WarnFrost)
    ELSE IF temperature > HotAbove THEN AddWarn(AddRec(a, RecHot), WarnHeat)
    ELSE IF OptimalLow <= temperature /\ temperature <= OptimalHigh
         THEN AddOpp(a, OppOptimal)
    ELSE a

\* HumidityRules that also warns on low humidity
HumidityRules_LowWarns(a, humidity) ==
    IF humidity > HumidAbove THEN AddWarn(AddRec(a, RecHumid), WarnFungal)
    ELSE IF humidity < LowHumidityBelow
         THEN AddWarn(AddRec(a, RecLowHumidity), WarnFungal)
    ELSE a

\* if humidity > 80 ... elif humidity < 40
HumidityRules(a, humidity) ==
    IF humidity > HumidAbove THEN AddWarn(AddRec(a, RecHumid), WarnFungal)
    ELSE IF humidity < LowHumidityBelow THEN AddRec(a, RecLowHumidity)
    ELSE a

\* PrecipitationRules whose dry rule forgets the humidity
PrecipitationRules_DryIgnoresHumidity(a, precipitation, humidity) ==
    IF precipitation > HeavyRainAbove THEN AddWarn(AddRec(a, RecDrainage), WarnWaterlog)
    ELSE IF precipitation = 0 THEN AddRec(a, RecDry)
    ELSE a

\* if precipitation > 10 ... elif precipitation == 0 and humidity < 50
PrecipitationRules(a, precipitation, humidity) ==
    IF precipitation > HeavyRainAbove THEN AddWarn(AddRec(a, RecDrainage), WarnWaterlog)
    ELSE IF precipitation = 0 /\ humidity < DryHumidityBelow THEN AddRec(a, RecDry)
    ELSE a

\* if "rain" in condition ... elif "clear" in condition ... elif "storm" ... or "thunder" ...
ConditionRules(a, condition) ==
    IF Contains(condition, W_rain) THEN AddRec(a, RecPostpone)
    ELSE IF Contains(condition, W_clear) THEN AddOpp(a, OppClear)
    ELSE IF Contains(condition, W_storm) \/ Contains(condition, W_thunder)
         THEN AddWarn(a, WarnStorm)
    ELSE a

\* CropRules comparing the crop type as given, without lower()
CropRules_CaseSensitive(a, crop, temperature, humidity) ==
    IF crop = W_rice
    THEN IF humidity > RiceHumidAbove /\ temperature > RiceTempAbove
         THEN AddRec(AddWarn(a, WarnRiceBlast), RecRiceBlast)
         ELSE a
    ELSE IF crop = W_wheat
    THEN IF temperature > WheatTempAbove /\ humidity < WheatHumidBelow
         THEN AddRec(AddWarn(a, WarnWheat), RecWheat)
         ELSE a
    ELSE a

\* if crop_type.lower() == "rice": ... elif crop_type.lower() == "wheat": ...
CropRules(a, crop, temperature, humidity) ==
    IF Lower(crop) = W_rice
    THEN IF humidity > RiceHumidAbove /\ temperature > RiceTempAbove
         THEN AddRec(AddWarn(a, WarnRiceBlast), RecRiceBlast)
         ELSE a
    ELSE IF Lower(crop) = W_wheat
    THEN IF temperature > WheatTempAbove /\ humidity < WheatHumidBelow
         THEN AddRec(AddWarn(a, WarnWheat), RecWheat)
         ELSE a
    ELSE a

\* SetPriority without the final else: the default priority is left in place
SetPriority_NoElse(a) ==
    IF Len(a.warnings) > HighWarnings THEN [a EXCEPT !.priority = "high"]
    ELSE IF Len(a.warnings) > 0 THEN [a EXCEPT !.priority = "normal"]
    ELSE a

\* if len(warnings) > 2: "high"  elif len(warnings) > 0: "normal"  else: "low"
SetPriority(a) ==
    IF Len(a.warnings) > HighWarnings THEN [a EXCEPT !.priority = "high"]
    ELSE IF Len(a.warnings) > 0 THEN [a EXCEPT !.priority = "normal"]
    ELSE [a EXCEPT !.priority = "low"]

\* _generate_weather_advisory(weather, crop_type)
GenerateWeatherAdvisory(w, crop) ==
    LET temperature   == w.temperature
        humidity      == w.humidity
        precipitation == w.precipitation
        condition     == Lower(w.condition)
        a0 == NewAdvisory(crop)
        a1 == TemperatureRules(a0, temperature)
        a2 == HumidityRules(a1, humidity)
        a3 == PrecipitationRules(a2, precipitation, humidity)
        a4 == ConditionRules(a3, condition)
        a5 == CropRules(a4, crop, temperature, humidity)
    IN  SetPriority(a5)

-----------------------------------------------------------------------------
(* The inputs of the advisory generator.                                   *)

\* How far around each threshold of the rules the inputs are drawn.
Margin == 1

Near(th) == (th - Margin)..(th + Margin)

Temperatures ==
    Near(ColdBelow) \cup Near(OptimalLow) \cup Near(RiceTempAbove)
        \cup Near(OptimalHigh) \cup Near(HotAbove) \cup {5, 28}

\* humidity is a percentage
Humidities ==
    (Near(LowHumidityBelow) \cup Near(DryHumidityBelow) \cup Near(RiceHumidAbove)
        \cup Near(HumidAbove) \cup {30, 75}) \cap (0..100)

\* precipitation is never negative
Precipitations == (0..Margin) \cup Near(HeavyRainAbove)

\* weather["condition"] as stored from the provider, in any letter case
Conditions ==
    { Title(W_clear), W_clear, W_clear \o W_sky,
      Title(W_rain), W_light \o W_rain,
      Title(W_thunder \o W_storm), W_thunder \o W_storm \o W_with \o W_rain,
      W_sand \o W_storm, W_thunder,
      W_cloudy, W_rain \o W_then \o W_clear, W_clear \o W_then \o W_storm }

CropTypes == {W_rice, Title(W_rice), W_wheat, W_maize}

Weathers ==
    [temperature : Temperatures, humidity : Humidities,
     precipitation : Precipitations, condition : Conditions]

-----------------------------------------------------------------------------
(* The advisory request: GET /api/weather/advisory hands the weather of    *)
(* the location and the crop type to the generator.                        *)

AdvisoryInit ==
    /\ weather \in Weathers
    /\ crop_type \in CropTypes
    /\ advisory = {}
    /\ image_data = NoValue
    /\ validation = {}
    /\ model = {}
    /\ confidence_threshold = NoValue
    /\ detection = {}
    /\ NoHelperCall
    /\ ApiIdle

GetWeatherAdvisory ==
    /\ advisory = {}
    /\ advisory' = {GenerateWeatherAdvisory(weather, crop_type)}
    /\ UNCHANGED <<weather, crop_type, image_data, validation,
                   model, confidence_threshold, detection>>
    /\ UNCHANGED <<apiVars, args, returned>>

AdvisoryNext == GetWeatherAdvisory

AdvisorySpec == AdvisoryInit /\ [][AdvisoryNext]_vars

-----------------------------------------------------------------------------
(* ImageProcessor.validate_image.  An upload is described by what PIL      *)
(* finds in its bytes: whether Image.open identifies it, the format PIL    *)
(* reports, the pixel size, and the number of bytes.                       *)

\* 10 * 1024 * 1024
MaxImageBytes == 10 * 1024 * 1024
MinDimension  == 100
MaxDimension  == 4000

MsgFileTooLarge == "Image file too large. Maximum size is 10MB."
MsgBadFormat    == "Unsupported image format. Please use JPEG or PNG."
MsgTooSmall     == "Image too small. Minimum size is 100x100 pixels."
MsgTooLarge     == "Image too large. Maximum size is 4000x4000 pixels."
MsgInvalidFile  == "Invalid image file: cannot identify image file"

\* The formats PIL reports for the files it opens ("JPG" is not one of them:
\* PIL names every JPEG file "JPEG").
PilFormats == {"JPEG", "PNG", "GIF", "BMP", "WEBP"}

Dimensions == Near(MinDimension) \cup Near(MaxDimension) \cup {50, 500}

FileSizes == Near(MaxImageBytes) \cup {50000}

Images ==
    [decodable : {TRUE}, format : PilFormats, width : Dimensions,
     height : Dimensions, file_size : FileSizes]
    \cup
    [decodable : {FALSE}, format : {"None"}, width : {0}, height : {0},
     file_size : FileSizes]

Returned(is_valid, error_msg) ==
    [raised |-> FALSE, is_valid |-> is_valid, error_msg |-> error_msg]

Raised(error_msg) ==
    [raised |-> TRUE, is_valid |-> FALSE, error_msg |-> error_msg]

\* the body of the try block of validate_image, with the minimum size exclusive
ValidateImageBody_ExclusiveMinimum(img) ==
    IF img.file_size > MaxImageBytes THEN Returned(FALSE, MsgFileTooLarge)
    ELSE IF ~img.decodable THEN Raised("cannot identify image file")
    ELSE IF img.format \notin {"JPEG", "PNG", "JPG"} THEN Returned(FALSE, MsgBadFormat)
    ELSE IF img.width <= MinDimension \/ img.height <= MinDimension
         THEN Returned(FALSE, MsgTooSmall)
    ELSE IF img.width > MaxDimension \/ img.height > MaxDimension
         THEN Returned(FALSE, MsgTooLarge)
    ELSE Returned(TRUE, "")

\* the body of the try block of validate_image; Image.open raises on bytes it
\* cannot identify
ValidateImageBody(img) ==
    IF img.file_size > MaxImageBytes THEN Returned(FALSE, MsgFileTooLarge)
    ELSE IF ~img.decodable THEN Raised("cannot identify image file")
    ELSE IF img.format \notin {"JPEG", "PNG", "JPG"} THEN Returned(FALSE, MsgBadFormat)
    ELSE IF img.width < MinDimension \/ img.height < MinDimension
         THEN Returned(FALSE, MsgTooSmall)
    ELSE IF img.width > MaxDimension \/ img.height > MaxDimension
         THEN Returned(FALSE, MsgTooLarge)
    ELSE Returned(TRUE, "")

\* validate_image: try: ... except Exception as e: return False, f"Invalid image file: {e}"
ValidateImage(img) ==
    LET r == ValidateImageBody(img) IN
    IF r.raised THEN Returned(FALSE, MsgInvalidFile) ELSE r

ValidationInit ==
    /\ image_data \in Images
    /\ validation = {}
    /\ weather = NoValue
    /\ crop_type = NoValue
    /\ advisory = {}
    /\ model = {}
    /\ confidence_threshold = NoValue
    /\ detection = {}
    /\ NoHelperCall
    /\ ApiIdle

CallValidateImage ==
    /\ validation = {}
    /\ validation' = {ValidateImage(image_data)}
    /\ UNCHANGED <<weather, crop_type, advisory, image_data,
                   model, confidence_threshold, detection>>
    /\ UNCHANGED <<apiVars, args, returned>>

ValidationNext == CallValidateImage

ValidationSpec == ValidationInit /\ [][ValidationNext]_vars

-----------------------------------------------------------------------------
(* CropDiseaseDetector.  Probabilities and confidences are in hundredths.  *)

W_tomato == <<"t","o","m","a","t","o">>
W_potato == <<"p","o","t","a","t","o">>
W_banana == <<"b","a","n","a","n","a">>

\* DISEASE_CLASSES[crop]: class index -> label
ClassTable(labels) == [i \in 0..(Len(labels) - 1) |-> labels[i + 1]]

DISEASE_CLASSES ==
    [crop \in {W_rice, W_wheat, W_maize, W_tomato, W_potato} |->
        CASE crop = W_rice ->
               ClassTable(<<"Healthy", "Brown Spot", "Bacterial Leaf Blight",
                            "Leaf Smut", "Rice Blast">>)
          [] crop = W_wheat ->
               ClassTable(<<"Healthy", "Rust", "Powdery Mildew", "Septoria",
                            "Fusarium Head Blight">>)
          [] crop = W_maize ->
               ClassTable(<<"Healthy", "Northern Leaf Blight", "Common Rust",
                            "Gray Leaf Spot", "Bacterial Wilt">>)
          [] crop = W_tomato ->
               ClassTable(<<"Healthy", "Early Blight", "Late Blight",
                            "Bacterial Spot", "Mosaic Virus">>)
          [] crop = W_potato ->
               ClassTable(<<"Healthy", "Late Blight", "Early Blight", "Blackleg",
                            "Viral Disease">>)]

\* self.DISEASE_CLASSES.get(crop_type.lower(), self.DISEASE_CLASSES["rice"]),
\* looked up with the crop type as given
DiseaseClassesFor_CaseSensitive(crop) ==
    IF crop \in DOMAIN DISEASE_CLASSES
    THEN DISEASE_CLASSES[crop]
    ELSE DISEASE_CLASSES[W_rice]

\* self.DISEASE_CLASSES.get(crop_type.lower(), self.DISEASE_CLASSES["rice"])
DiseaseClassesFor(crop) ==
    IF Lower(crop) \in DOMAIN DISEASE_CLASSES
    THEN DISEASE_CLASSES[Lower(crop)]
    ELSE DISEASE_CLASSES[W_rice]

\* list(disease_classes.values())
Values(f) == {f[i] : i \in DOMAIN f}

\* Settings.confidence_threshold, default 0.7
DefaultConfidenceThreshold == 70

\* the configured thresholds considered (CONFIDENCE_THRESHOLD in the environment)
Thresholds == {DefaultConfidenceThreshold - 10, DefaultConfidenceThreshold,
               DefaultConfidenceThreshold + 15}

\* random.uniform(lo, hi)
Uniform(lo, hi) == lo..hi

\* the draws of the stub
HealthyBias        == 60
HealthyConfLow     == 70
HealthyConfHigh    == 95
DiseasedConfLow    == 60
DiseasedConfHigh   == 90
StubPredictionLow  == 10
StubPredictionHigh == 30

\* the dict returned on an invalid image or on any exception
FailureResult(error) ==
    [success |-> FALSE, error |-> error, disease |-> "Unknown",
     confidence |-> 0, is_diseased |-> FALSE]

\* _get_dummy_prediction: the results its random draws can produce.  r is the
\* value of random.random(); each all_predictions entry is a draw of
\* uniform(0.1, 0.3), taken at its two ends.
DummyPredictions(crop) ==
    LET disease_classes == DiseaseClassesFor(crop)
        diseases == Values(disease_classes)
        picks ==
            { <<d, c>> \in diseases \X Uniform(DiseasedConfLow, HealthyConfHigh) :
                \E r \in 0..99 :
                    IF r < HealthyBias
                    THEN d = "Healthy" /\ c \in Uniform(HealthyConfLow, HealthyConfHigh)
                    ELSE d # "Healthy" /\ c \in Uniform(DiseasedConfLow, DiseasedConfHigh) }
    IN  { [success         |-> TRUE,
           disease         |-> pick[1],
           confidence      |-> pick[2],
           is_diseased     |-> pick[1] # "Healthy",
           crop_type       |-> crop,
           image_quality   |-> q,
           all_predictions |-> ap] :
             pick \in picks,
             q \in {"excellent", "good", "poor"},
             ap \in [diseases -> {StubPredictionLow, StubPredictionHigh}] }

\* The number of quanta a prediction vector's probability mass is split into.
PredUnits == 4

\* Dense(5, activation='softmax') of the development model
NumClasses == 5

RECURSIVE SumUpTo(_, _)
SumUpTo(v, i) == IF i < 0 THEN 0 ELSE v[i] + SumUpTo(v, i - 1)

\* predictions[0] of a model with n outputs: n probabilities that sum to 1
PredictionVectors(n) ==
    { [i \in 0..(n - 1) |-> (u[i] * 100) \div PredUnits] :
        u \in { w \in [0..(n - 1) -> 0..PredUnits] : SumUpTo(w, n - 1) = PredUnits } }

\* np.argmax: the first index of the largest entry
Argmax(v) ==
    CHOOSE i \in DOMAIN v :
        /\ \A j \in DOMAIN v : v[j] <= v[i]
        /\ \A j \in DOMAIN v : j < i => v[j] < v[i]

\* metadata.get("quality", "unknown")
ImageQualities == {"excellent", "good", "poor", "unknown"}

\* the model path with is_diseased taken from the confidence alone
DetectWithModel_IgnoresLabel(crop, threshold, predictions, quality) ==
    LET predicted_class == Argmax(predictions)
        confidence      == predictions[predicted_class]
        disease_classes == DiseaseClassesFor(crop)
        disease_name    == IF predicted_class \in DOMAIN disease_classes
                           THEN disease_classes[predicted_class]
                           ELSE "Unknown"
        is_diseased     == confidence >= threshold
    IN  IF \E i \in DOMAIN predictions : i \notin DOMAIN disease_classes
        THEN FailureResult("Detection failed: KeyError")
        ELSE [success         |-> TRUE,
              disease         |-> disease_name,
              confidence      |-> confidence,
              is_diseased     |-> is_diseased,
              crop_type       |-> crop,
              image_quality   |-> quality,
              all_predictions |->
                  [d \in Values(disease_classes) |->
                      predictions[CHOOSE i \in DOMAIN predictions :
                                      disease_classes[i] = d]]]

\* the model path with the labels of all_predictions looked up like the
\* disease name, with .get(i, "Unknown")
DetectWithModel_UnknownLabel(crop, threshold, predictions, quality) ==
    LET predicted_class == Argmax(predictions)
        confidence      == predictions[predicted_class]
        disease_classes == DiseaseClassesFor(crop)
        disease_name    == IF predicted_class \in DOMAIN disease_classes
                           THEN disease_classes[predicted_class]
                           ELSE "Unknown"
    IN  [success         |-> TRUE,
         disease         |-> disease_name,
         confidence      |-> confidence,
         is_diseased     |-> disease_name # "Healthy" /\ confidence >= threshold,
         crop_type       |-> crop,
         image_quality   |-> quality,
         all_predictions |-> [d \in Values(disease_classes) \cup {"Unknown"} |-> 0]]

\* detect_disease from model.predict on: the result for one prediction vector.
\* disease_classes[i] raises KeyError for an output index outside the table,
\* which the except clause turns into the failure dict.
DetectWithModel(crop, threshold, predictions, quality) ==
    LET predicted_class == Argmax(predictions)
        confidence      == predictions[predicted_class]
        disease_classes == DiseaseClassesFor(crop)
        disease_name    == IF predicted_class \in DOMAIN disease_classes
                           THEN disease_classes[predicted_class]
                           ELSE "Unknown"
        is_diseased     == disease_name # "Healthy" /\ confidence >= threshold
    IN  IF \E i \in DOMAIN predictions : i \notin DOMAIN disease_classes
        THEN FailureResult("Detection failed: KeyError")
        ELSE [success         |-> TRUE,
              disease         |-> disease_name,
              confidence      |-> confidence,
              is_diseased     |-> is_diseased,
              crop_type       |-> crop,
              image_quality   |-> quality,
              all_predictions |->
                  [d \in Values(disease_classes) |->
                      predictions[CHOOSE i \in DOMAIN predictions :
                                      disease_classes[i] = d]]]

\* detect_disease: every result the call can return.  process_image and
\* model.predict may raise on an image that passed validation.
DetectDiseaseResults(img, crop, mdl, threshold) ==
    LET v == ValidateImage(img) IN
    IF ~v.is_valid
    THEN {FailureResult(v.error_msg)}
    ELSE {FailureResult("Detection failed: process_image")}
         \cup
         IF mdl = {}
         THEN DummyPredictions(crop)
         ELSE {FailureResult("Detection failed: predict")}
              \cup
              { DetectWithModel(crop, threshold, p, q) :
                  p \in UNION {PredictionVectors(m.outputs) : m \in mdl},
                  q \in ImageQualities }

\* the uploads of the detection requests: a good one, one too small, one unreadable
DetectImages ==
    { [decodable |-> TRUE, format |-> "JPEG", width |-> 500, height |-> 500,
       file_size |-> 50000],
      [decodable |-> TRUE, format |-> "JPEG", width |-> 50, height |-> 50,
       file_size |-> 50000],
      [decodable |-> FALSE, format |-> "None", width |-> 0, height |-> 0,
       file_size |-> 50000] }

\* no model file, a model with the five outputs of the table, a model with one more
Models == {{}} \cup {{[outputs |-> n]} : n \in {NumClasses, NumClasses + 1}}

DetectCropTypes == {W_rice, Title(W_wheat), W_tomato, W_banana}

DetectionInit ==
    /\ image_data \in DetectImages
    /\ crop_type \in DetectCropTypes
    /\ model \in Models
    /\ confidence_threshold \in Thresholds
    /\ detection = {}
    /\ validation = {}
    /\ weather = NoValue
    /\ advisory = {}
    /\ NoHelperCall
    /\ ApiIdle

DetectDisease ==
    /\ detection = {}
    /\ \E r \in DetectDiseaseResults(image_data, crop_type, model, confidence_threshold) :
           detection' = {r}
    /\ UNCHANGED <<weather, crop_type, advisory, image_data, validation,
                   model, confidence_threshold>>
    /\ UNCHANGED <<apiVars, args, returned>>

DetectionNext == DetectDisease

DetectionSpec == DetectionInit /\ [][DetectionNext]_vars

-----------------------------------------------------------------------------
(* Properties of the advisory generator, checked under AdvisorySpec.       *)

\* C1: priority is "high" iff there are more than 2 warnings, "low" iff there
\* are none, and "normal" otherwise (1 or 2 warnings).
C1_PriorityFromWarningCount ==
    \A a \in advisory :
        LET n == Len(a.warnings) IN
        /\ a.priority \in {"low", "normal", "high"}
        /\ (a.priority = "high") <=> (n > 2)
        /\ (a.priority = "low") <=> (n = 0)
        /\ (a.priority = "normal") <=> (n = 1 \/ n = 2)

\* C1 witness: an advisory with no warning, whose priority is "low"
C1_Witness ==
    \E a \in advisory : Len(a.warnings) = 0 /\ a.priority = "low"

\* C2: the condition-text rules accumulate: the postpone-fertilizer
\* recommendation whenever the lower-cased condition contains "rain", the
\* field-operations opportunity whenever it contains "clear", the
\* secure-equipment warning whenever it contains "storm" or "thunder".
C2_ConditionRulesAccumulate ==
    \A a \in advisory :
        LET condition == Lower(weather.condition) IN
        /\ Contains(condition, W_rain) => RecPostpone \in Elems(a.recommendations)
        /\ Contains(condition, W_clear) => OppClear \in Elems(a.opportunities)
        /\ (Contains(condition, W_storm) \/ Contains(condition, W_thunder))
              => WarnStorm \in Elems(a.warnings)

\* C3: frost warning and cover recommendation exactly when temperature < 10,
\* heat warning and irrigation recommendation exactly when temperature > 35,
\* the optimal-range opportunity exactly when 20 <= temperature <= 30, and
\* no temperature entry for temperatures in [10,20) and (30,35].
C3_TemperatureRules ==
    \A a \in advisory :
        LET t == weather.temperature IN
        /\ (WarnFrost \in Elems(a.warnings)) <=> (t < 10)
        /\ (RecCold \in Elems(a.recommendations)) <=> (t < 10)
        /\ (WarnHeat \in Elems(a.warnings)) <=> (t > 35)
        /\ (RecHot \in Elems(a.recommendations)) <=> (t > 35)
        /\ (OppOptimal \in Elems(a.opportunities)) <=> (20 <= t /\ t <= 30)
        /\ ((10 <= t /\ t < 20) \/ (30 < t /\ t <= 35)) =>
              /\ Elems(a.warnings) \cap {WarnFrost, WarnHeat} = {}
              /\ Elems(a.recommendations) \cap {RecCold, RecHot} = {}
              /\ OppOptimal \notin Elems(a.opportunities)

\* C3 witness: the upper bound of the optimal range, 30, gets the opportunity
C3_Witness ==
    \E a \in advisory :
        weather.temperature = 30 /\ OppOptimal \in Elems(a.opportunities)

\* C4: fungal warning and monitoring recommendation exactly when humidity > 80,
\* low-humidity recommendation exactly when humidity < 40, waterlogging warning
\* and drainage recommendation exactly when precipitation > 10, dry-conditions
\* recommendation exactly when precipitation = 0 and humidity < 50.
C4_HumidityPrecipitationRules ==
    \A a \in advisory :
        LET h == weather.humidity
            p == weather.precipitation
        IN
        /\ (WarnFungal \in Elems(a.warnings)) <=> (h > 80)
        /\ (RecHumid \in Elems(a.recommendations)) <=> (h > 80)
        /\ (RecLowHumidity \in Elems(a.recommendations)) <=> (h < 40)
        /\ (WarnWaterlog \in Elems(a.warnings)) <=> (p > 10)
        /\ (RecDrainage \in Elems(a.recommendations)) <=> (p > 10)
        /\ (RecDry \in Elems(a.recommendations)) <=> (p = 0 /\ h < 50)

\* C4 witness: no rain and humidity between 40 and 50: only the dry rule fires
C4_Witness ==
    \E a \in advisory :
        /\ weather.precipitation = 0
        /\ weather.humidity = 49
        /\ RecDry \in Elems(a.recommendations)
        /\ RecLowHumidity \notin Elems(a.recommendations)

\* C5: rice (in any letter case) gets the rice-blast warning and fungicide
\* recommendation exactly when humidity > 70 and temperature > 25; wheat gets
\* the wheat-stress warning and soil-moisture recommendation exactly when
\* temperature > 30 and humidity < 50; no other crop gets a crop entry; and
\* 28 degrees, 75 %, no rain, "cloudy", rice gives the rice-blast warning and a
\* priority other than "low".
C5_CropOverlay ==
    \A a \in advisory :
        LET t == weather.temperature
            h == weather.humidity
            rice == crop_type \in {W_rice, Title(W_rice)}
            wheat == crop_type = W_wheat
        IN
        /\ (WarnRiceBlast \in Elems(a.warnings)) <=> (rice /\ h > 70 /\ t > 25)
        /\ (RecRiceBlast \in Elems(a.recommendations)) <=> (rice /\ h > 70 /\ t > 25)
        /\ (WarnWheat \in Elems(a.warnings)) <=> (wheat /\ t > 30 /\ h < 50)
        /\ (RecWheat \in Elems(a.recommendations)) <=> (wheat /\ t > 30 /\ h < 50)
        /\ (weather = [temperature |-> 28, humidity |-> 75, precipitation |-> 0,
                       condition |-> W_cloudy] /\ crop_type = W_rice)
              => (WarnRiceBlast \in Elems(a.warnings) /\ a.priority # "low")

\* C5 witness: the crop type "Rice" in warm humid weather gets the rice-blast warning
C5_Witness ==
    \E a \in advisory :
        /\ crop_type = Title(W_rice)
        /\ weather.temperature = 28
        /\ weather.humidity = 75
        /\ WarnRiceBlast \in Elems(a.warnings)

\* C6: 5 degrees, 30 %, no rain, "clear", any crop: the warnings are exactly the
\* frost warning, the recommendations include the cold-weather entry, the
\* priority is "normal" and the opportunities include the clear-weather entry.
C6_ColdClearExample ==
    \A a \in advisory :
        weather = [temperature |-> 5, humidity |-> 30, precipitation |-> 0,
                   condition |-> W_clear]
        => /\ a.warnings = <<WarnFrost>>
           /\ RecCold \in Elems(a.recommendations)
           /\ a.priority = "normal"
           /\ OppClear \in Elems(a.opportunities)

\* C6 witness: the advisory of the example input has been generated
C6_Witness ==
    \E a \in advisory :
        /\ weather = [temperature |-> 5, humidity |-> 30, precipitation |-> 0,
                      condition |-> W_clear]
        /\ a.warnings = <<WarnFrost>>

-----------------------------------------------------------------------------
(* Properties of validate_image, checked under ValidationSpec.             *)

\* C10: validate_image returns (True, "") exactly for the images that can be
\* opened, are JPEG or PNG, are 100..4000 pixels wide and high and have at most
\* 10485760 bytes; every other image is rejected with a non-empty message; no
\* exception escapes; a 50x50 image is rejected and a 500x500 JPEG under 10 MB
\* is accepted.
C10_ValidateImage ==
    \A v \in validation :
        LET img == image_data
            acceptable ==
                /\ img.decodable
                /\ img.format \in {"JPEG", "PNG"}
                /\ 100 <= img.width /\ img.width <= 4000
                /\ 100 <= img.height /\ img.height <= 4000
                /\ img.file_size <= 10485760
        IN
        /\ ~v.raised
        /\ v.is_valid <=> acceptable
        /\ v.is_valid => v.error_msg = ""
        /\ ~v.is_valid => v.error_msg # ""
        /\ (img.width = 50 /\ img.height = 50) => ~v.is_valid
        /\ (img.decodable /\ img.format = "JPEG" /\ img.width = 500
                /\ img.height = 500 /\ img.file_size < 10485760) => v.is_valid

\* C10 witness: a 100x4000 PNG of exactly 10485760 bytes has been accepted
C10_Witness ==
    \E v \in validation :
        /\ image_data = [decodable |-> TRUE, format |-> "PNG", width |-> 100,
                         height |-> 4000, file_size |-> 10485760]
        /\ v.is_valid
        /\ v.error_msg = ""

-----------------------------------------------------------------------------
(* Properties of detect_disease, checked under DetectionSpec.              *)

SuccessFields ==
    {"success", "disease", "confidence", "is_diseased", "crop_type",
     "image_quality", "all_predictions"}

\* C7: in every result of detect_disease (model, stub and failure paths),
\* is_diseased is false whenever the predicted label is "Healthy".
C7_HealthyNeverDiseased ==
    \A r \in detection : r.disease = "Healthy" => ~r.is_diseased

\* C7 witness: the model predicted "Healthy" with a confidence at or above the
\* threshold, and the result is not diseased
C7_Witness ==
    \E r \in detection :
        /\ model # {}
        /\ r.success
        /\ r.disease = "Healthy"
        /\ r.confidence >= confidence_threshold
        /\ ~r.is_diseased

\* C8: in every successful result, from the model or from the stub, is_diseased
\* equals (label # "Healthy") and (confidence >= configured threshold).
C8_DiseasedRule ==
    \A r \in detection :
        r.success =>
            (r.is_diseased <=>
                (r.disease # "Healthy" /\ r.confidence >= confidence_threshold))

\* C9: every stub result has exactly the fields of a successful model-path
\* result, a disease of the requested crop's label set (rice's for an unknown
\* crop) and an image_quality of excellent, good or poor.
C9_StubKeepsContract ==
    \A r \in detection :
        LET key == Lower(crop_type)
            labels == IF key \in DOMAIN DISEASE_CLASSES
                      THEN Values(DISEASE_CLASSES[key])
                      ELSE Values(DISEASE_CLASSES[W_rice])
        IN
        /\ (model # {} /\ r.success) => DOMAIN r = SuccessFields
        /\ (model = {} /\ r.success) =>
              /\ DOMAIN r = SuccessFields
              /\ r.disease \in labels
              /\ r.image_quality \in {"excellent", "good", "poor"}
              /\ r.crop_type = crop_type
              /\ DOMAIN r.all_predictions = labels

\* C9 witness: the stub answered a request for "Wheat" with a wheat disease
C9_Witness ==
    \E r \in detection :
        /\ model = {}
        /\ crop_type = Title(W_wheat)
        /\ r.success
        /\ r.disease = "Powdery Mildew"
        /\ DOMAIN r = SuccessFields

-----------------------------------------------------------------------------
(* The HTTP API.  A handler returns a dict, or raises HTTPException; the   *)
(* framework renders either as the response.  `calls` holds the outbound   *)
(* calls of the request being handled (or handled last), in order, each    *)
(* with the number of the request; `resp` holds that request's response    *)
(* once it is produced.                                                    *)

\* The number of requests of one behaviour, and the end of its time line.
MaxRequests == 3
MaxClock    == 3

\* timedelta(hours=1), in ticks
TicksPerHour == 2

HTTPException(status_code, detail) ==
    [raised |-> TRUE, status_code |-> status_code, detail |-> detail]

\* a handler's return value: a JSON object, or (the webhook) a string
Return(body) == [raised |-> FALSE, kind |-> "object", body |-> body]
ReturnString(text) == [raised |-> FALSE, kind |-> "string", body |-> [text |-> text]]

\* How the application renders what a handler produced.  HTTPException goes to
\* the handler registered for its status code when there is one (main.py
\* registers 404 in the exception middleware; the 500 handler is installed for
\* unhandled errors only), else to the framework's {"detail": ...} response.
Render(request, result) ==
    IF ~result.raised
    THEN [request |-> request, status |-> 200, kind |-> result.kind, body |-> result.body]
    ELSE IF result.status_code = 404
    THEN [request |-> request, status |-> 404, kind |-> "object",
          body |-> [success |-> FALSE, message |-> "Endpoint not found"]]
    ELSE [request |-> request, status |-> result.status_code, kind |-> "object",
          body |-> [detail |-> result.detail]]

\* one outbound call, before the request number and the time are stamped on it
Call(provider, op, target, ok, sid) ==
    [provider |-> provider, op |-> op, target |-> target, ok |-> ok, sid |-> sid]

Stamp(call, n, now) ==
    [req |-> n, at |-> now, provider |-> call.provider, op |-> call.op,
     target |-> call.target, ok |-> call.ok, sid |-> call.sid]

StampAll(cs, n, now) == [i \in 1..Len(cs) |-> Stamp(cs[i], n, now)]

EmptyDb == [users |-> <<>>, advisories |-> <<>>, weather_data |-> <<>>,
            crop_images |-> <<>>]

-----------------------------------------------------------------------------
(* backend/app/api/weather.py: GET /api/weather/current and /advisory.     *)
(* Of a weather row the location, the coordinates, the four values the     *)
(* advisory generator reads and recorded_at are kept; the other columns    *)
(* are copied from the provider's answer in the same way.                  *)

Coordinates == {<<17, 78>>, <<28, 77>>}

\* what the provider answers
ProviderWeathers ==
    { [temperature |-> 28, humidity |-> 75, precipitation |-> 0, condition |-> W_cloudy],
      [temperature |-> 5, humidity |-> 30, precipitation |-> 0,
       condition |-> Title(W_clear)] }

\* the "weather" dict of the response, built from a row
WeatherView(row) ==
    [location |-> row.location, temperature |-> row.temperature,
     humidity |-> row.humidity, precipitation |-> row.precipitation,
     condition |-> row.condition, recorded_at |-> row.recorded_at]

\* WeatherData.recorded_at >= datetime.utcnow() - timedelta(hours=1), strictly
IsFresh_Strict(row, latitude, longitude, now) ==
    /\ row.latitude = latitude
    /\ row.longitude = longitude
    /\ row.recorded_at > now - TicksPerHour

\* the filter of the lookup: same coordinates, recorded within the last hour
IsFresh(row, latitude, longitude, now) ==
    /\ row.latitude = latitude
    /\ row.longitude = longitude
    /\ row.recorded_at >= now - TicksPerHour

\* get_current_weather after an empty lookup: fetch from the provider, insert, commit
CurrentWeatherFetch(latitude, longitude, location, table, now) ==
    LET failed(detail) ==
            [table |-> table,
             outbound |-> <<Call("weather", "current", <<latitude, longitude>>, FALSE, 0)>>,
             result |-> HTTPException(500, detail)]
        stored(w) ==
            LET row == [id |-> Len(table) + 1,
                        location |-> IF location = NoValue
                                     THEN ToString(latitude) \o "," \o ToString(longitude)
                                     ELSE location,
                        latitude |-> latitude, longitude |-> longitude,
                        temperature |-> w.temperature, humidity |-> w.humidity,
                        precipitation |-> w.precipitation, condition |-> w.condition,
                        recorded_at |-> now]
            IN  { [table |-> Append(table, row),
                   outbound |-> <<Call("weather", "current", <<latitude, longitude>>,
                                       TRUE, 0)>>,
                   result |-> Return([success |-> TRUE, data_source |-> "api",
                                      weather |-> WeatherView(row)])],
                  [table |-> table,
                   outbound |-> <<Call("weather", "current", <<latitude, longitude>>,
                                       TRUE, 0)>>,
                   result |-> HTTPException(500, "Failed to fetch weather data: commit")] }
    IN  {failed("Failed to fetch weather data: provider")}
        \cup UNION {stored(w) : w \in ProviderWeathers}

\* get_current_weather: every outcome of one call.  The lookup returns any of
\* the fresh rows; the provider call and the commit may each fail, and every
\* exception leaves as HTTPException(500).
CurrentWeatherOutcomes(latitude, longitude, location, table, now) ==
    LET fresh == {i \in 1..Len(table) : IsFresh(table[i], latitude, longitude, now)}
    IN  IF fresh # {}
        THEN { [table |-> table,
                outbound |-> <<>>,
                result |-> Return([success |-> TRUE, data_source |-> "database",
                                   weather |-> WeatherView(table[i])])] : i \in fresh }
        ELSE CurrentWeatherFetch(latitude, longitude, location, table, now)

\* get_weather_advisory: the current weather, then the generator; any exception
\* (the HTTPException of get_current_weather included) leaves as HTTPException(500)
WeatherAdvisoryOutcomes(latitude, longitude, crop, table, now) ==
    { [table |-> o.table,
       outbound |-> o.outbound,
       result |-> IF o.result.raised
                  THEN HTTPException(500, "Failed to generate advisory")
                  ELSE Return([success |-> TRUE,
                               advisory |-> GenerateWeatherAdvisory(o.result.body.weather,
                                                                    crop),
                               weather_data |-> o.result.body.weather,
                               crop_type |-> crop])] :
        o \in CurrentWeatherOutcomes(latitude, longitude, NoValue, table, now) }

\* the parts of Init shared by the routers
ApiInit(r) ==
    /\ router = r
    /\ clock = 0
    /\ req = {}
    /\ calls = <<>>
    /\ tts_job = "none"
    /\ resp = {}
    /\ nreq = 0
    /\ weather = NoValue
    /\ crop_type = NoValue
    /\ advisory = {}
    /\ image_data = NoValue
    /\ validation = {}
    /\ detection = {}
    /\ NoHelperCall

WeatherInit ==
    /\ ApiInit("weather")
    /\ db = EmptyDb
    /\ model = {}
    /\ confidence_threshold = NoValue

\* time passes between requests
Tick ==
    /\ router \in {"weather", "disease"}
    /\ req = {}
    /\ clock < MaxClock
    /\ clock' = clock + 1
    /\ UNCHANGED <<router, db, req, calls, tts_job, resp, nreq>>
    /\ UNCHANGED pureVars

\* a request handled in one step: the table it leaves, its calls, its response
Serve(request, table_name, o) ==
    /\ nreq' = nreq + 1
    /\ db' = [db EXCEPT ![table_name] = o.table]
    /\ calls' = StampAll(o.outbound, nreq + 1, clock)
    /\ resp' = {Render(request, o.result)}
    /\ UNCHANGED <<router, clock, req, tts_job>>
    /\ UNCHANGED pureVars

\* GET /api/weather/current
GetCurrentWeather ==
    /\ router = "weather"
    /\ req = {}
    /\ nreq < MaxRequests
    /\ \E c \in Coordinates, location \in {NoValue} :
         \E o \in CurrentWeatherOutcomes(c[1], c[2], location, db.weather_data, clock) :
            Serve([endpoint |-> "weather/current", latitude |-> c[1],
                   longitude |-> c[2]], "weather_data", o)

\* GET /api/weather/advisory
GetWeatherAdvisoryRequest ==
    /\ router = "weather"
    /\ req = {}
    /\ nreq < MaxRequests
    /\ \E c \in Coordinates, crop \in {W_rice} :
         \E o \in WeatherAdvisoryOutcomes(c[1], c[2], crop, db.weather_data, clock) :
            Serve([endpoint |-> "weather/advisory", latitude |-> c[1],
                   longitude |-> c[2]], "weather_data", o)

WeatherNext == Tick \/ GetCurrentWeather \/ GetWeatherAdvisoryRequest

WeatherSpec == WeatherInit /\ [][WeatherNext]_vars

-----------------------------------------------------------------------------
(* Properties of the weather endpoints, checked under WeatherSpec.         *)

\* the outbound calls made by the step
NewCalls == calls'

\* the rows of the request's coordinates recorded within the last hour, at lookup
FreshRowsFor(q) ==
    { i \in 1..Len(db.weather_data) :
        /\ db.weather_data[i].latitude = q.latitude
        /\ db.weather_data[i].longitude = q.longitude
        /\ clock - db.weather_data[i].recorded_at <= TicksPerHour }

\* a request for the current weather is answered in this step
CurrentWeatherStep(r) ==
    /\ router = "weather"
    /\ nreq' = nreq + 1
    /\ r \in resp'
    /\ r.request.endpoint = "weather/current"

\* what a request that finds a fresh row does
AnsweredFromDatabase(r) ==
    /\ r.status = 200
    /\ r.body.data_source = "database"
    /\ \E i \in FreshRowsFor(r.request) : r.body.weather = WeatherView(db.weather_data[i])
    /\ NewCalls = <<>>
    /\ db' = db

\* C12 as stated: with a fresh row the response is built from it, without a
\* provider call or an insert; otherwise the provider is called exactly once,
\* exactly one row is stored and the response carries data_source "api" (so
\* that a second request within the hour finds the row and makes no call).
C12_FreshnessWindow ==
    [][ \A r \in resp' :
          CurrentWeatherStep(r) =>
            /\ IF FreshRowsFor(r.request) # {}
               THEN AnsweredFromDatabase(r)
               ELSE /\ Len(NewCalls) = 1
                    /\ NewCalls[1].provider = "weather"
                    /\ Len(db'.weather_data) = Len(db.weather_data) + 1
                    /\ r.status = 200
                    /\ r.body.data_source = "api" ]_vars

\* C12 amended: with a fresh row as stated; otherwise the provider is called
\* exactly once, and either the request answers 200 with data_source "api" and
\* exactly one new row of the request's coordinates, or (the call or the commit
\* failed) it ends with HTTP 500 and no row is stored, a failed call always
\* ending so; and no provider call is made for coordinates of which a row
\* recorded within the last hour is stored.
C12_FreshnessWindowOnSuccess ==
    [][ \A r \in resp' :
          CurrentWeatherStep(r) =>
            /\ IF FreshRowsFor(r.request) # {}
               THEN AnsweredFromDatabase(r)
               ELSE /\ Len(NewCalls) = 1
                    /\ NewCalls[1].provider = "weather"
                    /\ r.status \in {200, 500}
                    /\ ~NewCalls[1].ok => r.status = 500
                    /\ r.status = 500 => db' = db
                    /\ r.status = 200 =>
                         /\ r.body.data_source = "api"
                         /\ Len(db'.weather_data) = Len(db.weather_data) + 1
                         /\ SubSeq(db'.weather_data, 1, Len(db.weather_data))
                               = db.weather_data
                         /\ LET row == db'.weather_data[Len(db'.weather_data)] IN
                            /\ row.latitude = r.request.latitude
                            /\ row.longitude = r.request.longitude
                            /\ row.recorded_at = clock
                            /\ r.body.weather = WeatherView(row)
            /\ \A j \in 1..Len(NewCalls) : \A k \in 1..Len(db.weather_data) :
                 <<db.weather_data[k].latitude, db.weather_data[k].longitude>>
                       = NewCalls[j].target
                    => NewCalls[j].at - db.weather_data[k].recorded_at > TicksPerHour ]_vars

\* C12 witness: a request arriving exactly one hour after the row was recorded
\* has been answered from the database, without a provider call
C12_Witness ==
    \E r \in resp :
        /\ router = "weather"
        /\ r.request.endpoint = "weather/current"
        /\ r.status = 200
        /\ r.body.data_source = "database"
        /\ r.body.weather.recorded_at = clock - TicksPerHour
        /\ Len(db.weather_data) = 1
        /\ calls = <<>>

-----------------------------------------------------------------------------
(* backend/app/services/tts_service.py and backend/app/api/whatsapp.py.    *)
(* A call of twilio_client.messages.create blocks the handler and either   *)
(* returns a message with a fresh sid or raises.  The synthesis runs in    *)
(* the executor while the handler is suspended at its await; tts_job is    *)
(* the job's state and req the suspended handler's frame.                  *)

\* the characters str.split() separates at, among those of the texts considered
Whitespace == {" ", "\t", "\n"}

\* ' '.join(text.split()): the runs of whitespace inside the text become one
\* space each, those at its ends disappear
JoinSplit(text) ==
    LET kept(i) == \/ text[i] \notin Whitespace
                   \/ /\ i > 1
                      /\ text[i - 1] \notin Whitespace
                      /\ \E j \in (i + 1)..Len(text) : text[j] \notin Whitespace
        idx == SelectSeq([i \in 1..Len(text) |-> i], kept)
    IN  [k \in 1..Len(idx) |-> IF text[idx[k]] \in Whitespace THEN " " ELSE text[idx[k]]]

\* .replace('*', '').replace('#', '').replace('_', '')
RemoveSpecial(text) == SelectSeq(text, LAMBDA c : c \notin {"*", "#", "_"})

\* the length _clean_text cuts the text to
MaxCleanLength == 1000

\* cleaned[:1000] + "..." when len(cleaned) > 1000
Truncate(text) ==
    IF Len(text) > MaxCleanLength
    THEN SubSeq(text, 1, MaxCleanLength) \o <<".", ".", ".">>
    ELSE text

\* TTSService._clean_text
CleanText(text) ==
    IF text = <<>> THEN <<>> ELSE Truncate(RemoveSpecial(JoinSplit(text)))

\* the users table of the deployment
Users ==
    << [id |-> 1, phone_number |-> "+911", whatsapp_enabled |-> TRUE,  is_active |-> TRUE],
       [id |-> 2, phone_number |-> "+912", whatsapp_enabled |-> TRUE,  is_active |-> TRUE],
       [id |-> 3, phone_number |-> "+913", whatsapp_enabled |-> TRUE,  is_active |-> TRUE],
       [id |-> 4, phone_number |-> "+914", whatsapp_enabled |-> FALSE, is_active |-> TRUE],
       [id |-> 5, phone_number |-> "+915", whatsapp_enabled |-> TRUE,  is_active |-> FALSE] >>

\* user_id of the requests: a user, a user with WhatsApp disabled, no user
UserIds == {1, 4, 9}

\* message / text of the requests
Messages == {W_rain, <<"*", "#">>}

\* user_ids of a broadcast, as the set holding the list when one is given:
\* None, an empty list, a list
UserIdLists == { {}, {{}}, {{2, 4, 5, 9}} }

\* db.query(User).filter(User.id == user_id).first()
FirstUser(users, user_id) ==
    LET found == {i \in 1..Len(users) : users[i].id = user_id}
    IN  IF found = {} THEN {} ELSE {users[CHOOSE i \in found : \A j \in found : i <= j]}

\* the sid of the i-th outbound call of request n; a failed call has none
Sid(n, i) == <<n, i>>
NoSid == <<>>

TextCall(user, ok, sid) == Call("messaging", "text", user.id, ok, sid)
VoiceCall(user, ok, sid) == Call("messaging", "voice", user.id, ok, sid)

\* the Advisory row of /send and /broadcast
AdvisoryRow(table, user_id, title, message, advisory_type, voice_file) ==
    [id |-> Len(table) + 1, user_id |-> user_id, title |-> title, content |-> message,
     advisory_type |-> advisory_type, voice_file_path |-> voice_file,
     whatsapp_sent |-> TRUE]

\* send_whatsapp_message up to the text message: the lookup, the two checks and
\* the first messages.create.  An HTTPException raised in the try is caught by
\* `except Exception` and leaves as HTTPException(500).  The result is empty
\* when the handler goes on.
SendHead(users, user_id, text_ok, n) ==
    LET user == FirstUser(users, user_id) IN
    IF user = {}
    THEN [outbound |-> <<>>,
          result |-> {HTTPException(500, "Failed to send WhatsApp message: 404: User not found")}]
    ELSE LET u == CHOOSE x \in user : TRUE IN
         IF ~u.whatsapp_enabled
         THEN [outbound |-> <<>>,
               result |-> {HTTPException(500,
                  "Failed to send WhatsApp message: 400: WhatsApp notifications disabled for this user")}]
         ELSE IF ~text_ok
         THEN [outbound |-> <<TextCall(u, FALSE, NoSid)>>,
               result |-> {HTTPException(500, "Failed to send WhatsApp message: transport")}]
         ELSE [outbound |-> <<TextCall(u, TRUE, Sid(n, 1))>>, result |-> {}]

\* message_obj.sid taken from the message sent last
MessageSid_OfLast(text_sid, voice) ==
    IF voice # <<>> THEN voice[Len(voice)].sid ELSE text_sid

\* message_obj.sid of the response of /send: message_obj is the text message
MessageSid(text_sid, voice) == text_sid

\* send_whatsapp_message after generate_voice (or without it): the voice message
\* when there is a file, the advisory row, the commit, the response.
\* `made` is the number of outbound calls the request made before.
SendTail(users, table, user_id, message, sid, voice_file, voice_ok, commit_ok, n, made) ==
    LET u == CHOOSE x \in FirstUser(users, user_id) : TRUE
        voice == IF voice_file = NoValue THEN <<>>
                 ELSE <<VoiceCall(u, voice_ok, IF voice_ok THEN Sid(n, made + 1) ELSE NoSid)>>
    IN  IF voice_file # NoValue /\ ~voice_ok
        THEN [table |-> table, outbound |-> voice,
              result |-> HTTPException(500, "Failed to send WhatsApp message: transport")]
        ELSE IF ~commit_ok
        THEN [table |-> table, outbound |-> voice,
              result |-> HTTPException(500, "Failed to send WhatsApp message: commit")]
        ELSE [table |-> Append(table, AdvisoryRow(table, user_id, "WhatsApp Advisory",
                                                   message, "whatsapp", voice_file)),
              outbound |-> voice,
              result |-> Return([success |-> TRUE, message_sid |-> MessageSid(sid, voice),
                                 voice_url |-> voice_file, delivered |-> TRUE])]

\* send_voice_message up to generate_voice: the lookup
VoiceHead(users, user_id) ==
    IF FirstUser(users, user_id) = {}
    THEN [outbound |-> <<>>,
          result |-> {HTTPException(500, "Failed to send voice message: 404: User not found")}]
    ELSE [outbound |-> <<>>, result |-> {}]

\* send_voice_message after generate_voice
VoiceTail(users, table, user_id, voice_file, voice_ok, n, made) ==
    LET u == CHOOSE x \in FirstUser(users, user_id) : TRUE IN
    IF voice_file = NoValue
    THEN [table |-> table, outbound |-> <<>>,
          result |-> HTTPException(500,
             "Failed to send voice message: 500: Failed to generate voice file")]
    ELSE IF ~voice_ok
    THEN [table |-> table, outbound |-> <<VoiceCall(u, FALSE, NoSid)>>,
          result |-> HTTPException(500, "Failed to send voice message: transport")]
    ELSE [table |-> table, outbound |-> <<VoiceCall(u, TRUE, Sid(n, made + 1))>>,
          result |-> Return([success |-> TRUE, message_sid |-> Sid(n, made + 1),
                             voice_url |-> voice_file, delivered |-> TRUE])]

\* the loop of broadcast_message stopping at the first failed messages.create
Attempted_UntilFailure(selected, failing) ==
    SelectSeq(selected, LAMBDA u :
        \A j \in 1..Len(selected) :
            (selected[j].id \in failing /\ selected[j].id # u.id)
                => \E i \in 1..Len(selected) : i < j /\ selected[i].id = u.id)

\* the users the loop of broadcast_message attempts: each try/except keeps the
\* failure of one messages.create from ending the loop
Attempted(selected, failing) == selected

\* the table after db.commit(), were the added rows written whatever it does
Committed_Flushed(table, rows, commit_ok) == table \o rows

\* the table after db.commit(): the rows added with db.add are stored by the
\* commit, and by nothing else
Committed(table, rows, commit_ok) == IF commit_ok THEN table \o rows ELSE table

\* broadcast_message: the selected users in table order, one messages.create
\* each inside its own try, the rows of the sent ones, one commit at the end
BroadcastOutcome(users, table, message, user_ids, failing, commit_ok, n) ==
    LET users_all == SelectSeq(users, LAMBDA u :
                        /\ u.whatsapp_enabled
                        /\ u.is_active
                        /\ \A list \in user_ids : list = {} \/ u.id \in list)
        tried == Attempted(users_all, failing)
        sent == SelectSeq(tried, LAMBDA u : u.id \notin failing)
        outbound == [i \in 1..Len(tried) |->
                        TextCall(tried[i], tried[i].id \notin failing,
                                 IF tried[i].id \in failing THEN NoSid ELSE Sid(n, i))]
        results == [i \in 1..Len(tried) |->
                        IF tried[i].id \in failing
                        THEN [user_id |-> tried[i].id, phone |-> tried[i].phone_number,
                              status |-> "failed", error |-> "transport"]
                        ELSE [user_id |-> tried[i].id, phone |-> tried[i].phone_number,
                              status |-> "sent", message_sid |-> Sid(n, i)]]
        rows == [k \in 1..Len(sent) |->
                    AdvisoryRow(table \o SubSeq(sent, 1, k - 1), sent[k].id,
                                "Broadcast Advisory", message, "broadcast", NoValue)]
    IN  IF commit_ok
        THEN [table |-> Committed(table, rows, commit_ok), outbound |-> outbound,
              result |-> Return([success |-> TRUE, total_users |-> Len(users_all),
                                 successful |-> Len(sent),
                                 failed |-> Len(tried) - Len(sent),
                                 results |-> results])]
        ELSE [table |-> Committed(table, rows, commit_ok), outbound |-> outbound,
              result |-> HTTPException(500, "Failed to broadcast message: commit")]

\* get_message_status: messages(sid).fetch()
MessageStatusOutcome(table, message_sid, fetch_ok) ==
    IF fetch_ok
    THEN [table |-> table,
          outbound |-> <<Call("messaging", "status", message_sid, TRUE, message_sid)>>,
          result |-> Return([success |-> TRUE, sid |-> message_sid, status |-> "delivered",
                             date_sent |-> NoValue, error_code |-> NoValue,
                             error_message |-> NoValue])]
    ELSE [table |-> table,
          outbound |-> <<Call("messaging", "status", message_sid, FALSE, NoSid)>>,
          result |-> HTTPException(500, "Failed to get message status: transport")]

\* whatsapp_webhook: str(response), the reply chosen by the lowered body, or the
\* apology of the except branch
WebhookReply(body) ==
    LET b == Lower(body) IN
    IF b \in {<<"w","e","a","t","h","e","r">>,
              <<"w","e","a","t","h","e","r"," ","u","p","d","a","t","e">>,
              <<"w","e","a","t","h","e","r"," ","i","n","f","o">>}
    THEN "Weather information coming soon"
    ELSE IF b \in {<<"m","a","r","k","e","t">>, <<"p","r","i","c","e","s">>,
                   <<"m","a","r","k","e","t"," ","p","r","i","c","e","s">>}
    THEN "Market prices coming soon"
    ELSE IF b \in {<<"h","e","l","p">>, <<"c","o","m","m","a","n","d","s">>}
    THEN "Available commands"
    ELSE IF b \in {<<"d","i","s","e","a","s","e">>, <<"d","e","t","e","c","t">>,
                   <<"c","r","o","p"," ","i","m","a","g","e">>}
    THEN "Please upload a crop image"
    ELSE "Thanks for your message"

WebhookBodies == {<<"H","e","l","p">>, <<"p","r","i","c","e","s">>, <<"h","e","l","l","o">>, <<>>}

WebhookOutcomes(table, body) ==
    { [table |-> table, outbound |-> <<>>, result |-> ReturnString(t)] :
        t \in {WebhookReply(body), "Sorry, there was an error processing your message"} }

WhatsAppInit ==
    /\ ApiInit("whatsapp")
    /\ db = [EmptyDb EXCEPT !.users = Users]
    /\ model = {}
    /\ confidence_threshold = NoValue

\* the handler reaches `await tts_service.generate_voice(...)`, which submits
\* _gtts_sync_generate to the executor and suspends the handler
Suspend(request, outbound, frame) ==
    /\ nreq' = nreq + 1
    /\ req' = {frame}
    /\ tts_job' = "running"
    /\ calls' = StampAll(outbound, nreq + 1, clock)
    /\ resp' = {}
    /\ UNCHANGED <<router, clock, db>>
    /\ UNCHANGED pureVars

\* await loop.run_in_executor(...) going on without the job's result
Awaited_FireAndForget(job) == job \in {"running", "ok", "failed"}

\* await loop.run_in_executor(...): the handler goes on when the job has ended
Awaited(job) == job \in {"ok", "failed"}

\* generate_voice returning a path whatever the job's end
VoiceFile_Always(job) == "voice.mp3"

\* generate_voice returns the file's path when the job succeeded, else None
VoiceFile(job) == IF job = "ok" THEN "voice.mp3" ELSE NoValue

\* the suspended handler goes on to its end
Resume(frame, o) ==
    /\ db' = [db EXCEPT !.advisories = o.table]
    /\ calls' = calls \o StampAll(o.outbound, frame.request.n, clock)
    /\ resp' = {Render(frame.request, o.result)}
    /\ req' = {}
    /\ tts_job' = "none"
    /\ UNCHANGED <<router, clock, nreq>>
    /\ UNCHANGED pureVars

\* POST /api/whatsapp/send, to its end or to the await of generate_voice
SendWhatsappMessage ==
    /\ router = "whatsapp"
    /\ req = {}
    /\ nreq < MaxRequests
    /\ \E user_id \in UserIds, message \in Messages, include_voice \in BOOLEAN,
          text_ok \in BOOLEAN, commit_ok \in BOOLEAN :
         LET n == nreq + 1
             request == [endpoint |-> "whatsapp/send", n |-> n, user_id |-> user_id,
                         include_voice |-> include_voice]
             head == SendHead(db.users, user_id, text_ok, n)
             tail == SendTail(db.users, db.advisories, user_id, message, Sid(n, 1),
                              NoValue, TRUE, commit_ok, n, 1)
         IN  IF head.result # {}
             THEN Serve(request, "advisories",
                        [table |-> db.advisories, outbound |-> head.outbound,
                         result |-> CHOOSE x \in head.result : TRUE])
             ELSE IF include_voice /\ CleanText(message) # <<>>
             THEN Suspend(request, head.outbound,
                          [request |-> request, message |-> message, sid |-> Sid(n, 1)])
             ELSE Serve(request, "advisories",
                        [table |-> tail.table, outbound |-> head.outbound \o tail.outbound,
                         result |-> tail.result])

\* _gtts_sync_generate run again after a failure
GttsSyncGenerate_Retry ==
    /\ tts_job = "running"
    /\ \E ok \in BOOLEAN, f \in req :
         /\ tts_job' = IF ok THEN "ok" ELSE "running"
         /\ calls' = Append(calls, Stamp(Call("tts", "synthesis", f.request.user_id, ok, NoSid),
                                         f.request.n, clock))
    /\ UNCHANGED <<router, clock, db, req, resp, nreq>>
    /\ UNCHANGED pureVars

\* TTSService._gtts_sync_generate in the executor: gTTS(...).save, or failure
GttsSyncGenerate ==
    /\ tts_job = "running"
    /\ \E ok \in BOOLEAN, f \in req :
         /\ tts_job' = IF ok THEN "ok" ELSE "failed"
         /\ calls' = Append(calls, Stamp(Call("tts", "synthesis", f.request.user_id, ok, NoSid),
                                         f.request.n, clock))
    /\ UNCHANGED <<router, clock, db, req, resp, nreq>>
    /\ UNCHANGED pureVars

\* POST /api/whatsapp/send after generate_voice
SendWhatsappMessageResume ==
    /\ Awaited(tts_job)
    /\ \E f \in req, voice_ok \in BOOLEAN, commit_ok \in BOOLEAN :
         /\ f.request.endpoint = "whatsapp/send"
         /\ Resume(f, SendTail(db.users, db.advisories, f.request.user_id, f.message, f.sid,
                               VoiceFile(tts_job), voice_ok, commit_ok, f.request.n,
                               Len(calls)))

\* POST /api/whatsapp/voice, to its end or to the await of generate_voice
SendVoiceMessage ==
    /\ router = "whatsapp"
    /\ req = {}
    /\ nreq < MaxRequests
    /\ \E user_id \in UserIds, text \in Messages :
         LET n == nreq + 1
             request == [endpoint |-> "whatsapp/voice", n |-> n, user_id |-> user_id,
                         include_voice |-> TRUE]
             head == VoiceHead(db.users, user_id)
             tail == VoiceTail(db.users, db.advisories, user_id, NoValue, TRUE, n, 0)
         IN  IF head.result # {}
             THEN Serve(request, "advisories",
                        [table |-> db.advisories, outbound |-> head.outbound,
                         result |-> CHOOSE x \in head.result : TRUE])
             ELSE IF CleanText(text) # <<>>
             THEN Suspend(request, head.outbound,
                          [request |-> request, message |-> text, sid |-> NoSid])
             ELSE Serve(request, "advisories", tail)

\* POST /api/whatsapp/voice after generate_voice
SendVoiceMessageResume ==
    /\ Awaited(tts_job)
    /\ \E f \in req, voice_ok \in BOOLEAN :
         /\ f.request.endpoint = "whatsapp/voice"
         /\ Resume(f, VoiceTail(db.users, db.advisories, f.request.user_id,
                                VoiceFile(tts_job), voice_ok, f.request.n, Len(calls)))

\* POST /api/whatsapp/broadcast
BroadcastMessage ==
    /\ router = "whatsapp"
    /\ req = {}
    /\ nreq < MaxRequests
    /\ \E user_ids \in UserIdLists, failing \in SUBSET {1, 2, 3}, commit_ok \in BOOLEAN :
         Serve([endpoint |-> "whatsapp/broadcast", n |-> nreq + 1, user_ids |-> user_ids,
                failing |-> failing],
               "advisories",
               BroadcastOutcome(db.users, db.advisories, W_rain, user_ids, failing,
                                commit_ok, nreq + 1))

\* GET /api/whatsapp/status/{message_sid}
GetMessageStatus ==
    /\ router = "whatsapp"
    /\ req = {}
    /\ nreq < MaxRequests
    /\ \E fetch_ok \in BOOLEAN :
         Serve([endpoint |-> "whatsapp/status", n |-> nreq + 1], "advisories",
               MessageStatusOutcome(db.advisories, Sid(1, 1), fetch_ok))

\* POST /api/whatsapp/webhook
WhatsappWebhook ==
    /\ router = "whatsapp"
    /\ req = {}
    /\ nreq < MaxRequests
    /\ \E body \in WebhookBodies :
         \E o \in WebhookOutcomes(db.advisories, body) :
            Serve([endpoint |-> "whatsapp/webhook", n |-> nreq + 1], "advisories", o)

WhatsAppNext ==
    \/ SendWhatsappMessage
    \/ GttsSyncGenerate
    \/ SendWhatsappMessageResume
    \/ SendVoiceMessage
    \/ SendVoiceMessageResume
    \/ BroadcastMessage
    \/ GetMessageStatus
    \/ WhatsappWebhook

WhatsAppSpec == WhatsAppInit /\ [][WhatsAppNext]_vars

-----------------------------------------------------------------------------
(* Properties of the WhatsApp endpoints, checked under WhatsAppSpec.       *)

\* the recipients of a broadcast request: the enabled, active users, of the
\* listed ids when a non-empty list is given
Recipients(request) ==
    SelectSeq(db.users, LAMBDA u :
        /\ u.whatsapp_enabled
        /\ u.is_active
        /\ \A list \in request.user_ids : list = {} \/ u.id \in list)

\* C11: a broadcast attempts every recipient whatever transport calls fail (one
\* messaging call per recipient, in order); a failed transport call never ends
\* the request (it ends with an error only when the commit fails); the response
\* has one result entry per recipient, "failed" for the recipients whose call
\* failed and "sent" for the others, and successful + failed = total_users =
\* the number of entries; 3 recipients with 1 failure give 2, 1 and 3 entries.
C11_BroadcastIsolatesFailures ==
    \A r \in resp :
        r.request.endpoint = "whatsapp/broadcast" =>
            LET to == Recipients(r.request)
                lost == {i \in 1..Len(to) : to[i].id \in r.request.failing}
            IN  /\ Len(calls) = Len(to)
                /\ \A i \in 1..Len(to) :
                     /\ calls[i].provider = "messaging"
                     /\ calls[i].target = to[i].id
                     /\ calls[i].ok = (i \notin lost)
                /\ r.status # 200 =>
                     /\ r.status = 500
                     /\ r.body.detail = "Failed to broadcast message: commit"
                /\ r.status = 200 =>
                     /\ r.body.success
                     /\ r.body.total_users = Len(to)
                     /\ Len(r.body.results) = Len(to)
                     /\ r.body.successful + r.body.failed = r.body.total_users
                     /\ r.body.failed = Cardinality(lost)
                     /\ \A i \in 1..Len(to) :
                          /\ r.body.results[i].user_id = to[i].id
                          /\ r.body.results[i].status
                                = IF i \in lost THEN "failed" ELSE "sent"
                     /\ (Len(to) = 3 /\ Cardinality(lost) = 1) =>
                          /\ r.body.successful = 2
                          /\ r.body.failed = 1
                          /\ Len(r.body.results) = 3

\* C11 witness: a broadcast to three recipients, the second one's transport
\* call failing, has answered with 2 sent, 1 failed and three entries
C11_Witness ==
    \E r \in resp :
        /\ r.request.endpoint = "whatsapp/broadcast"
        /\ r.status = 200
        /\ r.body.total_users = 3
        /\ r.request.failing = {2}
        /\ r.body.successful = 2
        /\ r.body.results[2].status = "failed"
        /\ r.body.results[3].status = "sent"
        /\ Len(SelectSeq(db.advisories, LAMBDA a : a.advisory_type = "broadcast")) = 2

-----------------------------------------------------------------------------
(* backend/app/api/disease.py: POST /api/disease/detect and GET            *)
(* /api/disease/history, with the module's image_processor and             *)
(* disease_detector.  Of a crop_images row the columns the history reads   *)
(* are kept; get_disease_info and _get_treatment_recommendations add       *)
(* fields to the response from the same detection result.                  *)

\* The largest limit of a history request.
MaxLimit == 2

W_image_slash == <<"i","m","a","g","e","/">>

\* str.startswith
StartsWith(s, prefix) ==
    /\ Len(s) >= Len(prefix)
    /\ SubSeq(s, 1, Len(prefix)) = prefix

\* file.content_type, as the set holding the header's value when the part of
\* the upload has one: none (None), image/jpeg, text/plain
ContentTypes == { {}, {<<"i","m","a","g","e","/","j","p","e","g">>}, {<<"t","e","x","t","/","p","l","a","i","n">>} }

\* the detections one upload is followed through: the two failures, and of the
\* successful ones a healthy and a diseased one
SampleDetections(results) ==
    { r \in results :
        r.success => /\ r.image_quality = "good"
                     /\ r.confidence = 100
                     /\ r.disease \in {"Healthy", "Brown Spot"} }

\* the detector of the deployment: settings.ml_model_path names a model file
DeployedModel == {[outputs |-> NumClasses]}

\* what disease_detector.detect_disease returns for an upload that passed
\* validate_image (the detector reads nothing else of it), for rice
DeployedDetections ==
    SampleDetections(
        DetectDiseaseResults(CHOOSE img \in DetectImages : ValidateImage(img).is_valid,
                             W_rice, DeployedModel, DefaultConfidenceThreshold))

CropImageRow(table, user_id, crop, d, now) ==
    [id |-> Len(table) + 1, user_id |-> user_id, predicted_disease |-> d.disease,
     confidence_score |-> d.confidence, is_diseased |-> d.is_diseased,
     crop_type |-> crop, image_quality |-> d.image_quality, created_at |-> now]

\* detect_disease of disease.py: every outcome of one call.  HTTPException
\* passes the handler's `except HTTPException: raise`; any other exception
\* leaves as HTTPException(500).
DetectOutcomes(content_type, img, crop, user_id, table, detections, now) ==
    LET inference(ok) == <<Call("inference", "detect_disease", crop, ok, 0)>>
        v == ValidateImage(img)
        detected(d) ==
            IF ~d.success
            THEN { [table |-> table, outbound |-> inference(FALSE),
                    result |-> HTTPException(500, d.error)] }
            ELSE { [table |-> Append(table, CropImageRow(table, user_id, crop, d, now)),
                    outbound |-> inference(TRUE),
                    result |-> Return([success |-> TRUE, image_id |-> Len(table) + 1,
                                       disease |-> d.disease, confidence |-> d.confidence,
                                       is_diseased |-> d.is_diseased, crop_type |-> crop,
                                       image_quality |-> d.image_quality])],
                   [table |-> table, outbound |-> inference(TRUE),
                    result |-> HTTPException(500, "Internal server error: commit")] }
    IN  IF content_type = {}
        THEN { [table |-> table, outbound |-> <<>>,
                result |-> HTTPException(500,
                   "Internal server error: 'NoneType' object has no attribute 'startswith'")] }
        ELSE IF \E t \in content_type : ~StartsWith(t, W_image_slash)
        THEN { [table |-> table, outbound |-> <<>>,
                result |-> HTTPException(400, "File must be an image")] }
        ELSE IF ~v.is_valid
        THEN { [table |-> table, outbound |-> <<>>,
                result |-> HTTPException(400, v.error_msg)] }
        ELSE UNION { detected(d) : d \in detections }

\* one entry of the history list
HistoryEntry(row) ==
    [id |-> row.id, crop_type |-> row.crop_type, disease |-> row.predicted_disease,
     confidence |-> row.confidence_score, is_diseased |-> row.is_diseased,
     image_quality |-> row.image_quality, created_at |-> row.created_at]

\* filter(user_id).order_by(created_at.desc()).limit(limit).all(): the rows of
\* the user, newest first, rows of equal created_at in any order, cut at limit
HistoryQuery_OldestFirst(table, user_id, limit) ==
    LET mine == {i \in 1..Len(table) : table[i].user_id = user_id}
        orders == { o \in [1..Cardinality(mine) -> mine] :
                      /\ \A i, j \in DOMAIN o : i # j => o[i] # o[j]
                      /\ \A i, j \in DOMAIN o :
                           i < j => table[o[i]].created_at <= table[o[j]].created_at }
    IN  { [k \in 1..(IF limit < Len(o) THEN limit ELSE Len(o)) |-> table[o[k]]] :
            o \in orders }

HistoryQuery(table, user_id, limit) ==
    LET mine == {i \in 1..Len(table) : table[i].user_id = user_id}
        orders == { o \in [1..Cardinality(mine) -> mine] :
                      /\ \A i, j \in DOMAIN o : i # j => o[i] # o[j]
                      /\ \A i, j \in DOMAIN o :
                           i < j => table[o[i]].created_at >= table[o[j]].created_at }
    IN  { [k \in 1..(IF limit < Len(o) THEN limit ELSE Len(o)) |-> table[o[k]]] :
            o \in orders }

\* get_detection_history: every outcome of one call
HistoryOutcomes(table, user_id, limit) ==
    { [table |-> table, outbound |-> <<>>,
       result |-> Return([success |-> TRUE,
                          history |-> [k \in 1..Len(rows) |-> HistoryEntry(rows[k])],
                          total |-> Len(rows)])] :
        rows \in HistoryQuery(table, user_id, limit) }

DiseaseInit ==
    /\ ApiInit("disease")
    /\ db = EmptyDb
    /\ model = DeployedModel
    /\ confidence_threshold = DefaultConfidenceThreshold

\* POST /api/disease/detect
DetectDiseaseRequest ==
    /\ router = "disease"
    /\ req = {}
    /\ nreq < MaxRequests
    /\ \E content_type \in ContentTypes, img \in DetectImages, user_id \in {1, 2} :
         \E o \in DetectOutcomes(content_type, img, W_rice, user_id, db.crop_images,
                                 DeployedDetections, clock) :
            Serve([endpoint |-> "disease/detect", n |-> nreq + 1, user_id |-> user_id,
                   content_type |-> content_type, image |-> img],
                  "crop_images", o)

\* GET /api/disease/history
GetDetectionHistory ==
    /\ router = "disease"
    /\ req = {}
    /\ nreq < MaxRequests
    /\ \E user_id \in {1, 2}, limit \in 0..MaxLimit :
         \E o \in HistoryOutcomes(db.crop_images, user_id, limit) :
            Serve([endpoint |-> "disease/history", n |-> nreq + 1, user_id |-> user_id,
                   limit |-> limit],
                  "crop_images", o)

DiseaseNext == Tick \/ DetectDiseaseRequest \/ GetDetectionHistory

DiseaseSpec == DiseaseInit /\ [][DiseaseNext]_vars

-----------------------------------------------------------------------------
(* The three routers side by side (main.py includes the disease and the    *)
(* weather router; the WhatsApp router is taken as included too).  A       *)
(* behaviour is a behaviour of one router: they share no table.            *)

ApiSpecInit == WeatherInit \/ WhatsAppInit \/ DiseaseInit

ApiNext == WeatherNext \/ WhatsAppNext \/ DiseaseNext

ApiSpec == ApiSpecInit /\ [][ApiNext]_vars

\* the providers C13 names: weather, messaging, model inference
ExternalCalls == SelectSeq(calls, LAMBDA c : c.provider \in {"weather", "messaging", "inference"})

MessagingCalls == SelectSeq(calls, LAMBDA c : c.provider = "messaging")

\* C13 as stated: a request makes at most one outbound call to the weather
\* provider, the messaging transport and the model together.
C13_AtMostOneOutboundCall ==
    \A r \in resp : Len(ExternalCalls) <= 1

\* C13 amended: the weather and disease handlers, /voice, /status and /send
\* without a voice message make at most one such call, /history and /webhook
\* none; /send makes a second messaging call exactly when include_voice is set
\* and the synthesis succeeded (text first, then voice, if the text call
\* succeeded); /broadcast makes one messaging call per recipient.
C13_OutboundCallsPerHandler ==
    \A r \in resp :
        LET e == r.request.endpoint
            k == Len(ExternalCalls)
        IN  /\ e \in {"weather/current", "weather/advisory", "disease/detect",
                      "whatsapp/voice", "whatsapp/status"} => k <= 1
            /\ e \in {"disease/history", "whatsapp/webhook"} => k = 0
            /\ e = "whatsapp/send" =>
                 /\ k <= 2
                 /\ k = 2 <=> /\ r.request.include_voice
                              /\ \E i \in 1..Len(calls) :
                                    calls[i].provider = "tts" /\ calls[i].ok
                 /\ k = 2 => /\ ExternalCalls[1].op = "text"
                             /\ ExternalCalls[1].ok
                             /\ ExternalCalls[2].op = "voice"
            /\ e = "whatsapp/broadcast" =>
                 /\ k = Len(Recipients(r.request))
                 /\ \A i \in 1..k : ExternalCalls[i].provider = "messaging"

\* C13 witness: a /send with a voice message has been answered after two
\* messaging calls
C13_Witness ==
    \E r \in resp :
        /\ r.request.endpoint = "whatsapp/send"
        /\ r.status = 200
        /\ Len(MessagingCalls) = 2

\* a /send with include_voice whose synthesis succeeded has been answered 200
SentWithVoice(r) ==
    /\ r.request.endpoint = "whatsapp/send"
    /\ r.request.include_voice
    /\ r.status = 200
    /\ r.body.voice_url # NoValue

C15_UnknownUserIs404 ==
    \A r \in resp :
        ( /\ r.request.endpoint \in {"whatsapp/send", "whatsapp/voice"}
          /\ FirstUser(db.users, r.request.user_id) = {} )
        => /\ r.status = 404
           /\ calls = <<>>
           /\ \A a \in 1..Len(db.advisories) :
                 db.advisories[a].user_id # r.request.user_id

\* C16: every response of the disease, weather and WhatsApp endpoints carries
\* a boolean success, TRUE on success and FALSE on failure.
C16_SuccessFieldAlways ==
    \A r \in resp :
        /\ "success" \in DOMAIN r.body
        /\ r.body.success \in BOOLEAN
        /\ r.body.success <=> (r.status = 200)

\* some outbound call of the answered request failed
SomeCallFailed == \E i \in 1..Len(calls) : ~calls[i].ok

\* C17 as stated: no call is retried, and a request in which an outbound call
\* failed never answers success = TRUE.
C17_FailedCallIsError ==
    \A r \in resp :
        /\ \A i, j \in 1..Len(calls) :
             i < j => <<calls[i].provider, calls[i].op, calls[i].target>>
                        # <<calls[j].provider, calls[j].op, calls[j].target>>
        /\ SomeCallFailed => ~(r.status = 200 /\ r.body.success)

\* C17 amended: no call is repeated within a request; outside /broadcast a
\* failed call is the last call of its request; a failed weather, inference or
\* messaging call, and a failed synthesis of /voice, end the request with HTTP
\* 500; a failed synthesis of /send is swallowed (success TRUE, voice_url null,
\* no voice message, unless the commit fails); /broadcast answers success TRUE
\* whatever calls failed, counting them in `failed`.
C17_FailedCallsByHandler ==
    \A r \in resp :
        LET e == r.request.endpoint
            failed == {i \in 1..Len(calls) : ~calls[i].ok}
        IN  /\ \A i, j \in 1..Len(calls) :
                 i < j => <<calls[i].provider, calls[i].op, calls[i].target>>
                            # <<calls[j].provider, calls[j].op, calls[j].target>>
            /\ e # "whatsapp/broadcast" => \A i \in failed : i = Len(calls)
            /\ (e \notin {"whatsapp/broadcast", "whatsapp/send"} /\ failed # {})
                  => r.status = 500
            /\ e = "whatsapp/send" =>
                 \A i \in failed :
                    IF calls[i].provider = "tts"
                    THEN /\ r.status \in {200, 500}
                         /\ r.status = 200 => /\ r.body.success
                                              /\ r.body.voice_url = NoValue
                                              /\ Len(MessagingCalls) = 1
                         /\ r.status = 500 =>
                               r.body.detail = "Failed to send WhatsApp message: commit"
                    ELSE r.status = 500
            /\ e = "whatsapp/broadcast" =>
                 /\ r.status = 500 =>
                       r.body.detail = "Failed to broadcast message: commit"
                 /\ r.status = 200 => /\ r.body.success
                                      /\ r.body.failed = Cardinality(failed)

\* C17 witness: a /send whose synthesis failed has answered success TRUE
C17_Witness ==
    \E r \in resp :
        /\ r.request.endpoint = "whatsapp/send"
        /\ r.request.include_voice
        /\ \E i \in 1..Len(calls) : calls[i].provider = "tts" /\ ~calls[i].ok
        /\ r.status = 200
        /\ r.body.success
        /\ r.body.voice_url = NoValue

\* C18: while the synthesis job a request started is running, the handler
\* stays suspended: no response is produced, no message is submitted to the
\* transport, and the only call logged is the synthesis ending.
C18_SynthesisAwaited ==
    [][ tts_job = "running" =>
          /\ resp' = resp
          /\ req' = req
          /\ db' = db
          /\ SelectSeq(calls', LAMBDA c : c.provider = "messaging") = MessagingCalls
          /\ tts_job' \in {"running", "ok", "failed"} ]_vars

\* C18 witness: a /send with voice has been answered after its synthesis job
\* ended, the voice message following the synthesis in the request's calls
C18_Witness ==
    \E r \in resp :
        /\ r.request.endpoint = "whatsapp/send"
        /\ tts_job = "none"
        /\ req = {}
        /\ Len(calls) = 3
        /\ calls[2].provider = "tts"
        /\ calls[3].op = "voice"

-----------------------------------------------------------------------------
(* Properties of the disease endpoints, checked under DiseaseSpec.         *)

\* C19: a history response lists only rows of the requested user, each once,
\* newest first by created_at, min(limit, the user's rows) of them and so at
\* most limit, no omitted row of the user being newer than a listed one, and
\* total is the number of entries.
C19_HistoryNewestFirst ==
    \A r \in resp :
        (r.request.endpoint = "disease/history" /\ r.status = 200) =>
            LET h == r.body.history
                table == db.crop_images
                mine == {i \in 1..Len(table) : table[i].user_id = r.request.user_id}
                listed == {i \in mine : \E k \in 1..Len(h) : h[k] = HistoryEntry(table[i])}
            IN  /\ r.body.success
                /\ r.body.total = Len(h)
                /\ Len(h) <= r.request.limit
                /\ Len(h) = IF r.request.limit < Cardinality(mine)
                            THEN r.request.limit ELSE Cardinality(mine)
                /\ \A k \in 1..Len(h) : \E i \in mine : h[k] = HistoryEntry(table[i])
                /\ \A k, l \in 1..Len(h) : k # l => h[k].id # h[l].id
                /\ \A k, l \in 1..Len(h) : k < l => h[k].created_at >= h[l].created_at
                /\ \A i \in mine \ listed : \A k \in 1..Len(h) :
                      table[i].created_at <= h[k].created_at

\* C19 witness: of two rows of a user recorded at different times, a history
\* of limit 1 has listed the newer one
C19_Witness ==
    \E r \in resp :
        /\ r.request.endpoint = "disease/history"
        /\ r.status = 200
        /\ r.request.limit = 1
        /\ r.body.total = 1
        /\ \E i, j \in 1..Len(db.crop_images) :
              /\ db.crop_images[i].user_id = r.request.user_id
              /\ db.crop_images[j].user_id = r.request.user_id
              /\ db.crop_images[i].created_at < db.crop_images[j].created_at
              /\ r.body.history[1].id = db.crop_images[j].id

\* C20: a detect request whose upload is not of an image content type, or
\* whose bytes validate_image rejects, ends with HTTP 400 and the validation
\* message, without a call of the detector and without a row; a failure of the
\* detector ends with HTTP 500 and no row; a row is stored only with a
\* successful detection, with the disease, confidence and is_diseased of the
\* response.
C20_ValidationBeforeDetection ==
    [][ \A r \in resp' :
          (router = "disease" /\ nreq' = nreq + 1 /\ r.request.endpoint = "disease/detect") =>
            LET image_type == \E t \in r.request.content_type : StartsWith(t, W_image_slash)
                v == ValidateImage(r.request.image)
                rows == db.crop_images
                rows2 == db'.crop_images
            IN  /\ ~image_type =>
                     /\ r.status = 400
                     /\ r.body.detail = "File must be an image"
                     /\ calls' = <<>>
                     /\ rows2 = rows
                /\ (image_type /\ ~v.is_valid) =>
                     /\ r.status = 400
                     /\ r.body.detail = v.error_msg
                     /\ calls' = <<>>
                     /\ rows2 = rows
                /\ (\E i \in 1..Len(calls') : ~calls'[i].ok) =>
                     /\ r.status = 500
                     /\ rows2 = rows
                /\ rows2 # rows =>
                     /\ r.status = 200
                     /\ Len(calls') = 1 /\ calls'[1].provider = "inference" /\ calls'[1].ok
                     /\ rows2 = Append(rows, rows2[Len(rows2)])
                     /\ rows2[Len(rows2)].predicted_disease = r.body.disease
                     /\ rows2[Len(rows2)].confidence_score = r.body.confidence
                     /\ rows2[Len(rows2)].is_diseased = r.body.is_diseased ]_vars

\* the part of C20 about uploads that carry a content type
C20_WithContentType ==
    [][ \A r \in resp' :
          ( /\ router = "disease" /\ nreq' = nreq + 1
            /\ r.request.endpoint = "disease/detect"
            /\ r.request.content_type # {} ) =>
            LET image_type == \E t \in r.request.content_type : StartsWith(t, W_image_slash)
                v == ValidateImage(r.request.image)
            IN  /\ ~image_type => r.status = 400 /\ r.body.detail = "File must be an image"
                                  /\ calls' = <<>> /\ db' = db
                /\ (image_type /\ ~v.is_valid) =>
                      r.status = 400 /\ r.body.detail = v.error_msg
                      /\ calls' = <<>> /\ db' = db
                /\ (\E i \in 1..Len(calls') : ~calls'[i].ok) => r.status = 500 /\ db' = db
                /\ db' # db => r.status = 200 ]_vars

-----------------------------------------------------------------------------
(* Further properties of the WhatsApp endpoints, checked under             *)
(* WhatsAppSpec.                                                           *)

\* C21: a /send request for an existing user whose whatsapp_enabled is false
\* ends with status 400 and the detail "WhatsApp notifications disabled for
\* this user", without a transport call and without an advisory row.
C21_DisabledUserIs400 ==
    \A r \in resp :
        ( /\ r.request.endpoint = "whatsapp/send"
          /\ \E u \in FirstUser(db.users, r.request.user_id) : ~u.whatsapp_enabled )
        => /\ r.status = 400
           /\ r.body.detail = "WhatsApp notifications disabled for this user"
           /\ calls = <<>>
           /\ \A a \in 1..Len(db.advisories) :
                 db.advisories[a].user_id # r.request.user_id

-----------------------------------------------------------------------------
(* Further properties of CropDiseaseDetector.detect_disease, checked under *)
(* DetectionSpec.                                                          *)

FailureFields == {"success", "error", "disease", "confidence", "is_diseased"}

\* C22: detect_disease always returns a result: for an image validate_image
\* rejects, and for a failure of the processing, the inference or the label
\* lookup, one with success FALSE, a non-empty error, disease "Unknown",
\* confidence 0 and is_diseased FALSE; and with success TRUE the disease is a
\* label of the crop's class table (rice's for a crop without a table).
C22_FailuresAreResults ==
    \A r \in detection :
        /\ r.success \in BOOLEAN
        /\ ~ValidateImage(image_data).is_valid => ~r.success
        /\ ~r.success =>
             /\ DOMAIN r = FailureFields
             /\ r.error # ""
             /\ r.disease = "Unknown"
             /\ r.confidence = 0
             /\ r.is_diseased = FALSE
        /\ r.success =>
             /\ ValidateImage(image_data).is_valid
             /\ r.disease \in Values(IF Lower(crop_type) \in DOMAIN DISEASE_CLASSES
                                     THEN DISEASE_CLASSES[Lower(crop_type)]
                                     ELSE DISEASE_CLASSES[W_rice])

\* C22 witness: a model with one output more than the class table has produced
\* the failure of the label lookup, for a crop without a table
C22_Witness ==
    \E r \in detection :
        /\ ~r.success
        /\ r.error = "Detection failed: KeyError"
        /\ \E m \in model : m.outputs = NumClasses + 1
        /\ crop_type = W_banana

-----------------------------------------------------------------------------
(* _get_treatment_recommendations (api/disease.py): the recommendations    *)
(* attached to a detection result.  A list entry is a pair                 *)
(* <<fixed text, characters formatted into it>>.                            *)

\* every variable except those of a helper call at rest
HelperIdle ==
    /\ weather = NoValue
    /\ crop_type = NoValue
    /\ advisory = {}
    /\ image_data = NoValue
    /\ validation = {}
    /\ model = {}
    /\ confidence_threshold = NoValue
    /\ detection = {}
    /\ ApiIdle

\* a list entry that is a string literal
Entry(text) == <<text, <<>>>>

W_Healthy == <<"H","e","a","l","t","h","y">>
W_blight  == <<"b","l","i","g","h","t">>
W_rust    == <<"r","u","s","t">>
W_spot    == <<"s","p","o","t">>

\* the words the disease names considered are made of
DiseaseWords ==
    { <<"H","e","a","l","t","h","y">>,
      <<"h","e","a","l","t","h","y">>,
      <<"B","l","i","g","h","t">>,
      <<"B","L","I","G","H","T">>,
      <<"R","u","s","t">>,
      <<"T","r","u","s","t","y">>,
      <<"S","p","o","t">>,
      <<"s","p","o","t">>,
      <<"S","m","u","t">> }

\* the disease names considered: one word, or two separated by a space
DiseaseNames ==
    DiseaseWords \cup { a \o <<" ">> \o b : a \in DiseaseWords, b \in DiseaseWords }

HealthyRecommendations ==
    << Entry("Your crop appears healthy!"),
       Entry("Continue regular monitoring"),
       Entry("Maintain good agricultural practices"),
       Entry("Ensure proper irrigation and nutrition") >>

\* the list the function starts from for a diseased crop
BaseRecommendations(disease) ==
    << <<"Disease detected: ", disease>>,
       Entry("Immediate action required"),
       Entry("Consult with local agricultural extension officer"),
       Entry("Consider appropriate fungicide/bactericide application") >>

BlightRecommendations ==
    << Entry("Improve air circulation and reduce humidity"),
       Entry("Remove and destroy infected plant parts") >>

RustRecommendations ==
    << Entry("Apply sulfur-based fungicides"),
       Entry("Use resistant varieties for future planting") >>

SpotRecommendations ==
    << Entry("Improve drainage and avoid overhead irrigation"),
       Entry("Apply copper-based fungicides") >>

\* the keyword tests as three independent `if` statements
SpecificRecommendations_EveryMatch(disease) ==
    (IF Contains(Lower(disease), W_blight) THEN BlightRecommendations ELSE <<>>)
    \o (IF Contains(Lower(disease), W_rust) THEN RustRecommendations ELSE <<>>)
    \o (IF Contains(Lower(disease), W_spot) THEN SpotRecommendations ELSE <<>>)

\* the if / elif / elif chain on disease.lower()
SpecificRecommendations(disease) ==
    IF Contains(Lower(disease), W_blight) THEN BlightRecommendations
    ELSE IF Contains(Lower(disease), W_rust) THEN RustRecommendations
    ELSE IF Contains(Lower(disease), W_spot) THEN SpotRecommendations
    ELSE <<>>

GetTreatmentRecommendations(disease, is_diseased) ==
    IF ~is_diseased \/ disease = W_Healthy
    THEN HealthyRecommendations
    ELSE BaseRecommendations(disease) \o SpecificRecommendations(disease)

RecommendationInit ==
    /\ args \in [disease : DiseaseNames, is_diseased : BOOLEAN]
    /\ returned = {}
    /\ HelperIdle

CallGetTreatmentRecommendations ==
    /\ returned = {}
    /\ returned' = {GetTreatmentRecommendations(args.disease, args.is_diseased)}
    /\ UNCHANGED <<weather, crop_type, advisory, image_data, validation,
                   model, confidence_threshold, detection, apiVars, args>>

RecommendationSpec == RecommendationInit /\ [][CallGetTreatmentRecommendations]_vars

\* the first of the keywords blight, rust, spot found in the lower-cased name
FirstKeyword(disease) ==
    LET found == { k \in 1..3 : Contains(Lower(disease), <<W_blight, W_rust, W_spot>>[k]) }
    IN  IF found = {} THEN 0 ELSE CHOOSE k \in found : \A j \in found : k <= j

\* C23: _get_treatment_recommendations returns the four-entry healthy list
\* exactly when is_diseased is false or the disease is 'Healthy'; otherwise
\* the result is the four base entries, the first being 'Disease detected:
\* <disease>', followed by exactly the two entries of the first keyword among
\* blight, rust, spot found in the name without regard to case, or by nothing
\* when none is found; a name containing both 'blight' and 'spot' gets the
\* blight entries only.
C23_TreatmentRecommendations ==
    \A r \in returned :
        LET healthy == ~args.is_diseased \/ args.disease = W_Healthy
            k == FirstKeyword(args.disease)
        IN  /\ Len(HealthyRecommendations) = 4
            /\ (r = HealthyRecommendations) <=> healthy
            /\ ~healthy =>
                 /\ Len(r) = IF k = 0 THEN 4 ELSE 6
                 /\ SubSeq(r, 1, 4) = BaseRecommendations(args.disease)
                 /\ r[1] = <<"Disease detected: ", args.disease>>
                 /\ k = 1 => SubSeq(r, 5, 6) = BlightRecommendations
                 /\ k = 2 => SubSeq(r, 5, 6) = RustRecommendations
                 /\ k = 3 => SubSeq(r, 5, 6) = SpotRecommendations
                 /\ ( Contains(Lower(args.disease), W_blight)
                      /\ Contains(Lower(args.disease), W_spot) )
                    => /\ Len(r) = 6
                       /\ \A i \in 1..Len(r) :
                              r[i] \notin {SpotRecommendations[1], SpotRecommendations[2]}

\* a diseased crop whose name holds 'spot' before 'blight', in upper case
C23_Witness ==
    /\ args.is_diseased
    /\ args.disease = <<"s","p","o","t"," ","B","L","I","G","H","T">>
    /\ returned = {BaseRecommendations(args.disease) \o BlightRecommendations}

-----------------------------------------------------------------------------
(* Python floats: IEEE-754 binary64 with round-to-nearest-even, for values *)
(* that are zero or positive.  A natural number of any size is a sequence  *)
(* of bits, least significant first; a float is [m, e] with value m * 2^e, *)
(* m having exactly Precision bits, or no bits for zero.                   *)

\* the significand of a binary64 value, hidden bit included
Precision == 53

RECURSIVE BitsOf(_)
BitsOf(n) == IF n = 0 THEN <<>> ELSE <<n % 2>> \o BitsOf(n \div 2)

Zeros(k) == [i \in 1..k |-> 0]

\* the bits without their leading zeros
Trim(b) ==
    LET ones == {i \in 1..Len(b) : b[i] = 1}
    IN  IF ones = {} THEN <<>>
        ELSE SubSeq(b, 1, CHOOSE i \in ones : \A j \in ones : j <= i)

\* a + b: bit i receives a carry when the nearest lower position that does
\* not just pass a carry on (one bit set) generates one (both bits set)
AddBits(a, b) ==
    LET n      == IF Len(a) < Len(b) THEN Len(b) ELSE Len(a)
        x(i)   == IF i <= Len(a) THEN a[i] ELSE 0
        y(i)   == IF i <= Len(b) THEN b[i] ELSE 0
        c(i)   == LET decided == {j \in 1..(i - 1) : x(j) + y(j) # 1}
                  IN  IF decided = {} THEN 0
                      ELSE LET j == CHOOSE j \in decided : \A k \in decided : k <= j
                           IN  IF x(j) + y(j) = 2 THEN 1 ELSE 0
    IN  Trim([i \in 1..(n + 1) |-> (x(i) + y(i) + c(i)) % 2])

\* 2^k mod n
RECURSIVE Pow2Mod(_, _)
Pow2Mod(k, n) ==
    IF k = 0 THEN 1 % n
    ELSE LET h == Pow2Mod(k \div 2, n)
         IN  (h * h * (IF k % 2 = 1 THEN 2 ELSE 1)) % n

\* the number written by bits[lo..hi], mod n
RECURSIVE ValueMod(_, _, _, _)
ValueMod(bits, lo, hi, n) ==
    IF lo > hi THEN 0
    ELSE IF lo = hi THEN bits[lo] % n
    ELSE LET mid == (lo + hi) \div 2
         IN  (ValueMod(bits, lo, mid, n)
              + Pow2Mod(mid + 1 - lo, n) * ValueMod(bits, mid + 1, hi, n)) % n

\* bits divided by the small number n, as in long division: the quotient's
\* bit i is what the higher bits leave, doubled, plus bit i, divided by n
LongDivision(bits, n) ==
    [q |-> [i \in 1..Len(bits) |->
               (2 * ValueMod(bits, i + 1, Len(bits), n) + bits[i]) \div n],
     r |-> ValueMod(bits, 1, Len(bits), n)]

\* a < b for two bit sequences of the same length
BitsLess(a, b) ==
    \E i \in 1..Len(a) : /\ a[i] < b[i]
                         /\ \A j \in (i + 1)..Len(a) : a[j] = b[j]

FloatZero == [m |-> <<>>, e |-> 0]

\* the binary64 value nearest to bits * 2^e, ties to the even significand
RoundToDouble(bits, e) ==
    LET m == Trim(bits)
        n == Len(m)
    IN  IF n = 0 THEN FloatZero
        ELSE IF n <= Precision
        THEN [m |-> Zeros(Precision - n) \o m, e |-> e - (Precision - n)]
        ELSE LET k      == n - Precision
                 kept   == SubSeq(m, k + 1, n)
                 sticky == \E i \in 1..(k - 1) : m[i] = 1
                 up     == m[k] = 1 /\ (sticky \/ kept[1] = 1)
                 r      == IF up THEN AddBits(kept, <<1>>) ELSE kept
             IN  IF Len(r) > Precision
                 THEN [m |-> SubSeq(r, 2, Len(r)), e |-> e + k + 1]
                 ELSE [m |-> r, e |-> e + k]

\* int -> float
FromInt(n) == RoundToDouble(BitsOf(n), 0)

\* a + b
FloatAdd(a, b) ==
    IF a.m = <<>> THEN b
    ELSE IF b.m = <<>> THEN a
    ELSE LET low == IF a.e < b.e THEN a.e ELSE b.e
         IN  RoundToDouble(AddBits(Zeros(a.e - low) \o a.m, Zeros(b.e - low) \o b.m), low)

\* a / n for an int n > 0: the quotient is computed with spare bits, the last
\* of them telling whether anything was left over, and rounded once
TrueDivide(a, n) ==
    LET spare == Len(BitsOf(n)) + 2
        bits  == Zeros(spare) \o a.m
        d     == LongDivision(bits, n)
    IN  RoundToDouble(<<IF d.r = 0 THEN 0 ELSE 1>> \o d.q, a.e - spare - 1)

\* a <= b
FloatLE(a, b) ==
    IF a.m = <<>> THEN TRUE
    ELSE IF b.m = <<>> THEN FALSE
    ELSE a.e < b.e \/ (a.e = b.e /\ ~BitsLess(b.m, a.m))

\* float("x.y") for a decimal literal given in tenths: the nearest binary64 value
NearestDouble(tenths) == TrueDivide(FromInt(tenths), 10)

\* the decimal literals of the replies considered, parsed once
ParsedLiterals == [tenths \in {5, 15, 152, 153} |-> NearestDouble(tenths)]

ParseDecimal(tenths) ==
    IF tenths \in DOMAIN ParsedLiterals THEN ParsedLiterals[tenths] ELSE NearestDouble(tenths)

\* sum(values): additions from the left, starting from 0
RECURSIVE FloatSum(_)
FloatSum(values) ==
    IF values = <<>> THEN FloatZero
    ELSE FloatAdd(FloatSum(SubSeq(values, 1, Len(values) - 1)), values[Len(values)])

Range(s) == {s[i] : i \in 1..Len(s)}

\* min(values), max(values)
FloatMin(values) == CHOOSE x \in Range(values) : \A y \in Range(values) : FloatLE(x, y)

FloatMax(values) == CHOOSE x \in Range(values) : \A y \in Range(values) : FloatLE(y, x)

-----------------------------------------------------------------------------
(* _fetch_forecast_from_api (api/weather.py): the provider's 3-hourly      *)
(* forecast grouped by calendar date.  An item of the reply carries dt_txt *)
(* as its whitespace-separated fields, the temperature and the rain amount *)
(* as decimal literals in tenths, `rain` being {} when the key is absent.  *)

MaxItems == 3

Day1 == "2024-05-01"
Day2 == "2024-05-02"

ForecastItem(dt_txt, temp, humidity, rain, description) ==
    [dt_txt |-> dt_txt, temp |-> temp, humidity |-> humidity, rain |-> rain,
     description |-> description]

\* the items a reply is made of
ForecastItems ==
    { ForecastItem(<<Day1, "09:00:00">>, 152, 60, {},   "clear sky"),
      ForecastItem(<<Day1, "12:00:00">>, 152, 65, {5},  "light rain"),
      ForecastItem(<<Day1, "15:00:00">>, 152, 65, {15}, "scattered clouds"),
      ForecastItem(<<Day1, "18:00:00">>, 153, 70, {},   "clear sky"),
      ForecastItem(<<Day2, "09:00:00">>, 152, 60, {5},  "light rain"),
      ForecastItem(<<Day2, "12:00:00">>, 153, 70, {},   "clear sky") }

\* data["list"] of the replies considered
ForecastLists == UNION { [1..n -> ForecastItems] : n \in 0..MaxItems }

\* what requests.get gives back: an error status, or a body
ForecastReplies ==
    {[ok |-> FALSE, list |-> <<>>]} \cup {[ok |-> TRUE, list |-> l] : l \in ForecastLists}

\* the `days` query parameter, an int
ForecastDays == {-1, 0, 1, 2}

\* item["dt_txt"].split()[0]
DateOf(item) == item.dt_txt[1]

\* the keys of daily_data in insertion order
RECURSIVE FirstSeen(_)
FirstSeen(keys) ==
    IF keys = <<>> THEN <<>>
    ELSE LET before == FirstSeen(SubSeq(keys, 1, Len(keys) - 1))
             k      == keys[Len(keys)]
         IN  IF k \in Range(before) THEN before ELSE Append(before, k)

\* conditions.count(c)
Count(s, c) == Cardinality({i \in 1..Len(s) : s[i] = c})

\* max(set(conditions), key=conditions.count) returns the first item of the
\* set, in the set's iteration order, that no other item beats: any of the
\* most frequent ones
MostFrequent(conditions) ==
    { c \in Range(conditions) : \A d \in Range(conditions) : Count(conditions, d) <= Count(conditions, c) }

\* the entries forecast.append can build for one date
DailyEntries(list, date) ==
    LET items         == SelectSeq(list, LAMBDA item : DateOf(item) = date)
        temperatures  == [i \in 1..Len(items) |-> ParseDecimal(items[i].temp)]
        humidity      == [i \in 1..Len(items) |-> FromInt(items[i].humidity)]
        precipitation == [i \in 1..Len(items) |->
                             IF items[i].rain = {} THEN FloatZero
                             ELSE ParseDecimal(CHOOSE x \in items[i].rain : TRUE)]
        conditions    == [i \in 1..Len(items) |-> items[i].description]
    IN  { [date          |-> date,
           temperature   |-> [min |-> FloatMin(temperatures),
                              max |-> FloatMax(temperatures),
                              avg |-> TrueDivide(FloatSum(temperatures), Len(temperatures))],
           humidity      |-> TrueDivide(FloatSum(humidity), Len(humidity)),
           precipitation |-> FloatSum(precipitation),
           condition     |-> c] : c \in MostFrequent(conditions) }

\* the lists the second loop can build for the given dates
RECURSIVE Forecasts(_, _)
Forecasts(list, dates) ==
    IF dates = <<>> THEN {<<>>}
    ELSE { <<entry>> \o rest : entry \in DailyEntries(list, Head(dates)),
                               rest \in Forecasts(list, Tail(dates)) }

\* s[:n]
SliceTo(s, n) ==
    IF n >= 0
    THEN SubSeq(s, 1, IF n < Len(s) THEN n ELSE Len(s))
    ELSE SubSeq(s, 1, IF Len(s) + n > 0 THEN Len(s) + n ELSE 0)

\* the outcomes of _fetch_forecast_from_api: it raises, or returns a list
FetchForecastFromApi(reply, days) ==
    IF ~reply.ok
    THEN {[raised |-> TRUE, forecast |-> <<>>]}
    ELSE { [raised |-> FALSE, forecast |-> SliceTo(forecast, days)] :
               forecast \in Forecasts(reply.list,
                                      FirstSeen([i \in 1..Len(reply.list) |-> DateOf(reply.list[i])])) }

ForecastInit ==
    /\ args \in [reply : ForecastReplies, days : ForecastDays]
    /\ returned = {}
    /\ HelperIdle

CallFetchForecastFromApi ==
    /\ returned = {}
    /\ \E outcome \in FetchForecastFromApi(args.reply, args.days) : returned' = {outcome}
    /\ UNCHANGED <<weather, crop_type, advisory, image_data, validation,
                   model, confidence_threshold, detection, apiVars, args>>

ForecastSpec == ForecastInit /\ [][CallFetchForecastFromApi]_vars

\* the items of the reply that belong to a date
ItemsOn(date) == SelectSeq(args.reply.list, LAMBDA item : item.dt_txt[1] = date)

\* the rain amounts of a date added up exactly, in tenths
RECURSIVE RainTenths(_)
RainTenths(items) ==
    IF items = <<>> THEN 0
    ELSE (IF Head(items).rain = {} THEN 0 ELSE CHOOSE x \in Head(items).rain : TRUE)
         + RainTenths(Tail(items))

\* the returned list has at most `days` entries
C24_AtMostDays ==
    \A r \in returned : ~r.raised => Len(r.forecast) <= args.days

\* its entries are for the distinct dates of the reply, in first-seen order
C24_OnePerDate ==
    \A r \in returned : ~r.raised =>
        \A i \in 1..Len(r.forecast) :
            /\ \E j \in 1..Len(args.reply.list) :
                  /\ args.reply.list[j].dt_txt[1] = r.forecast[i].date
                  /\ Cardinality({args.reply.list[k].dt_txt[1] : k \in 1..(j - 1)}) = i - 1
                  /\ \A k \in 1..(j - 1) : args.reply.list[k].dt_txt[1] # r.forecast[i].date

\* min <= avg <= max in every entry
C24_AverageWithinRange ==
    \A r \in returned : ~r.raised =>
        \A i \in 1..Len(r.forecast) :
            /\ FloatLE(r.forecast[i].temperature.min, r.forecast[i].temperature.avg)
            /\ FloatLE(r.forecast[i].temperature.avg, r.forecast[i].temperature.max)

\* precipitation is the date's total, condition one of its most frequent descriptions
C24_TotalsAndCondition ==
    \A r \in returned : ~r.raised =>
        \A i \in 1..Len(r.forecast) :
            LET items == ItemsOn(r.forecast[i].date)
            IN  /\ r.forecast[i].precipitation
                     = (IF RainTenths(items) = 0 THEN FloatZero ELSE ParseDecimal(RainTenths(items)))
                /\ \A j \in 1..Len(items) :
                       Count([k \in 1..Len(items) |-> items[k].description], items[j].description)
                       <= Count([k \in 1..Len(items) |-> items[k].description], r.forecast[i].condition)
                /\ \E j \in 1..Len(items) : items[j].description = r.forecast[i].condition

\* C24: _fetch_forecast_from_api returns at most `days` entries, one per
\* distinct calendar date in first-seen order; in each entry min <= avg <= max,
\* precipitation is the sum of that date's 3-hour rain amounts (0 where the
\* reply has none) and condition is a most frequent description of that date.
C24_DailyForecast ==
    /\ C24_AtMostDays
    /\ C24_OnePerDate
    /\ C24_AverageWithinRange
    /\ C24_TotalsAndCondition

-----------------------------------------------------------------------------
(* Further properties of the messaging endpoints.                          *)

\* C25: whatever sequence of /send, /voice and /broadcast requests is served, no
\* message, text or voice, is submitted to the transport for a user whose
\* whatsapp_enabled is false at the time of the call.
C25_OptInSafety ==
    \A i \in 1..Len(calls) :
        (calls[i].provider = "messaging" /\ calls[i].op \in {"text", "voice"})
            => \E u \in FirstUser(db.users, calls[i].target) : u.whatsapp_enabled

\* C26: a broadcast contacts exactly the users that are whatsapp_enabled and
\* is_active and, when a user_ids list is supplied (an empty one included),
\* whose id is in that list; all enabled active users are contacted only when
\* user_ids is None.
C26_BroadcastRecipients ==
    \A r \in resp :
        r.request.endpoint = "whatsapp/broadcast" =>
            {calls[i].target : i \in 1..Len(calls)}
                = { db.users[k].id : k \in { j \in 1..Len(db.users) :
                        /\ db.users[j].whatsapp_enabled
                        /\ db.users[j].is_active
                        /\ \A list \in r.request.user_ids : db.users[j].id \in list } }

\* C27: a broadcast that returns success leaves exactly one new advisory row,
\* of type 'broadcast' with whatsapp_sent true, for each recipient whose
\* transport call succeeded, in order: their number is the 'successful' count
\* and no recipient reported 'failed' has one; a broadcast whose final commit
\* fails returns 500 and leaves no new advisory row.
C27_BroadcastAdvisories ==
    [][ ( /\ nreq' = nreq + 1
          /\ \E r \in resp' : r.request.endpoint = "whatsapp/broadcast" )
        => \A r \in resp' :
             LET before    == Len(db.advisories)
                 new       == SubSeq(db'.advisories, before + 1, Len(db'.advisories))
                 delivered == SelectSeq(calls', LAMBDA c : c.ok)
             IN  /\ Len(db'.advisories) >= before
                 /\ SubSeq(db'.advisories, 1, before) = db.advisories
                 /\ IF r.status = 200
                    THEN /\ r.body.success
                         /\ Len(new) = r.body.successful
                         /\ Len(new) = Len(delivered)
                         /\ \A k \in 1..Len(new) :
                              /\ new[k].user_id = delivered[k].target
                              /\ new[k].advisory_type = "broadcast"
                              /\ new[k].whatsapp_sent
                         /\ \A i \in 1..Len(r.body.results) :
                              r.body.results[i].status = "failed"
                                => \A k \in 1..Len(new) :
                                       new[k].user_id # r.body.results[i].user_id
                    ELSE /\ r.status = 500
                         /\ new = <<>>
      ]_vars

\* a broadcast to three recipients, the first of them failing, has stored the
\* rows of the other two
C27_Witness ==
    \E r \in resp :
        /\ r.request.endpoint = "whatsapp/broadcast"
        /\ r.status = 200
        /\ r.body.failed = 1
        /\ r.body.results[1].status = "failed"
        /\ Len(db.advisories) = 2
        /\ db.advisories[1].user_id = 2
        /\ db.advisories[2].user_id = 3
        /\ \A a \in 1..2 : db.advisories[a].advisory_type = "broadcast"

\* C28: POST /api/whatsapp/send stores its advisory row (whatsapp_sent true)
\* exactly when the transport accepted the text message: a request answered
\* with an error has delivered no message, and a delivered text has its
\* advisory row also when the voice message sent after it fails.
C28_SendRecordsDelivery ==
    [][ \A r \in resp' :
          (r.request.endpoint = "whatsapp/send" /\ r \notin resp)
            => LET accepted == \E i \in 1..Len(calls') :
                                   /\ calls'[i].provider = "messaging"
                                   /\ calls'[i].op = "text"
                                   /\ calls'[i].ok
                   stored   == /\ Len(db'.advisories) = Len(db.advisories) + 1
                               /\ db'.advisories[Len(db'.advisories)].user_id = r.request.user_id
                               /\ db'.advisories[Len(db'.advisories)].whatsapp_sent
               IN  /\ stored <=> accepted
                   /\ r.status # 200 => ~accepted
      ]_vars

-----------------------------------------------------------------------------
(* Concurrent requests to the weather endpoints.  The server (main.py:     *)
(* uvicorn.run) is one process with one event loop; each request is a task *)
(* of that loop, and the loop runs a task until it suspends.  Here req is  *)
(* the set of the tasks in flight, each with its position, and calls keeps *)
(* every provider call made, in order.                                     *)

\* a task inside `await _fetch_weather_from_api(...)` has handed control back
\* to the event loop
Suspended_AtAwait(task) == task.pc = "fetch"

\* whether a task has handed control back to the event loop: awaiting a
\* coroutine runs it inside the task, and _fetch_weather_from_api awaits
\* nothing (requests.get blocks the loop), so a task never does
Suspended(task) == FALSE

WeatherTasksInit ==
    /\ ApiInit("weather tasks")
    /\ db = EmptyDb
    /\ model = {}
    /\ confidence_threshold = NoValue

\* the number of requests that arrive
MaxTasks == 2

\* a request arrives and becomes a task, while others may be in flight
AcceptWeatherRequest ==
    /\ router = "weather tasks"
    /\ nreq < MaxTasks
    /\ nreq' = nreq + 1
    /\ \E c \in Coordinates, endpoint \in {"weather/current", "weather/advisory"} :
         req' = req \cup {[request |-> [endpoint |-> endpoint, n |-> nreq + 1,
                                        latitude |-> c[1], longitude |-> c[2]],
                           pc |-> "lookup"]}
    /\ UNCHANGED <<router, clock, db, calls, tts_job, resp>>
    /\ UNCHANGED pureVars

\* time passes, also while a handler is inside requests.get
TimePasses ==
    /\ router = "weather tasks"
    /\ clock < MaxClock
    /\ clock' = clock + 1
    /\ UNCHANGED <<router, db, req, calls, tts_job, resp, nreq>>
    /\ UNCHANGED pureVars

\* what the endpoint of the task makes of get_current_weather's result
TaskResult(task, result) ==
    IF task.request.endpoint = "weather/current" THEN result
    ELSE IF result.raised THEN HTTPException(500, "Failed to generate advisory")
    ELSE Return([success |-> TRUE,
                 advisory |-> GenerateWeatherAdvisory(result.body.weather, W_rice),
                 weather_data |-> result.body.weather,
                 crop_type |-> W_rice])

\* the loop starts a task while no other task is in the middle of its handler:
\* the lookup, answered at once when a fresh row exists
LookupWeather ==
    /\ router = "weather tasks"
    /\ \E task \in req :
         /\ task.pc = "lookup"
         /\ \A other \in req : other.pc = "lookup" \/ Suspended(other)
         /\ LET fresh == {i \in 1..Len(db.weather_data) :
                             IsFresh(db.weather_data[i], task.request.latitude,
                                     task.request.longitude, clock)}
            IN  IF fresh # {}
                THEN /\ req' = req \ {task}
                     /\ \E i \in fresh :
                          resp' = {Render(task.request,
                                          TaskResult(task,
                                              Return([success |-> TRUE,
                                                      data_source |-> "database",
                                                      weather |-> WeatherView(db.weather_data[i])])))}
                ELSE /\ req' = (req \ {task}) \cup {[task EXCEPT !.pc = "fetch"]}
                     /\ resp' = resp
    /\ UNCHANGED <<router, clock, db, calls, tts_job, nreq>>
    /\ UNCHANGED pureVars

\* the rest of the handler: the provider call, the insert, the commit, the response
FetchAndStoreWeather ==
    /\ router = "weather tasks"
    /\ \E task \in req :
         /\ task.pc = "fetch"
         /\ \E o \in CurrentWeatherFetch(task.request.latitude, task.request.longitude,
                                         NoValue, db.weather_data, clock) :
              /\ db' = [db EXCEPT !.weather_data = o.table]
              /\ calls' = calls \o StampAll(o.outbound, task.request.n, clock)
              /\ resp' = {Render(task.request, TaskResult(task, o.result))}
         /\ req' = req \ {task}
    /\ UNCHANGED <<router, clock, tts_job, nreq>>
    /\ UNCHANGED pureVars

WeatherTasksNext ==
    AcceptWeatherRequest \/ TimePasses \/ LookupWeather \/ FetchAndStoreWeather

WeatherTasksSpec == WeatherTasksInit /\ [][WeatherTasksNext]_vars

\* two rows of the same coordinates lie more than an hour apart
RowsAnHourApart(table) ==
    \A i, j \in 1..Len(table) :
        ( /\ i < j
          /\ table[i].latitude = table[j].latitude
          /\ table[i].longitude = table[j].longitude )
        => table[j].recorded_at - table[i].recorded_at > TicksPerHour

\* C29 as stated: however concurrent requests for the same coordinates are
\* interleaved, within any one hour the weather provider is called at most
\* once and at most one weather row is stored for those coordinates.
C29_OncePerHour ==
    /\ \A i, j \in 1..Len(calls) :
          (i < j /\ calls[i].target = calls[j].target)
              => calls[j].at - calls[i].at > TicksPerHour
    /\ RowsAnHourApart(db.weather_data)

\* C29, amended: concurrent requests are served one after the other, no
\* handler starting while another is between its lookup and its commit; the
\* provider is never called for coordinates of which a row recorded within the
\* last hour is stored, and two stored rows of the same coordinates are always
\* more than an hour apart.  (A failed fetch stores nothing and may repeat.)
C29_SerialisedFreshness ==
    [][ /\ \A task \in req' : \A other \in req' :
              (task.pc = "fetch" /\ other.pc = "fetch") => task = other
        /\ Len(calls') > Len(calls)
              => \A k \in 1..Len(db.weather_data) :
                    <<db.weather_data[k].latitude, db.weather_data[k].longitude>>
                        = calls'[Len(calls')].target
                    => clock - db.weather_data[k].recorded_at > TicksPerHour
        /\ RowsAnHourApart(db'.weather_data)
      ]_vars

\* two requests for the same coordinates were in flight together: the later
\* one ran first and stored the row, the earlier one was answered from it
C29_Witness ==
    /\ router = "weather tasks"
    /\ Len(calls) = 1
    /\ calls[1].req = 2
    /\ calls[1].ok
    /\ Len(db.weather_data) = 1
    /\ \E r \in resp : /\ r.request.n = 1
                       /\ r.status = 200
                       /\ r.request.endpoint = "weather/current"
                       /\ r.body.data_source = "database"
                       /\ <<r.request.latitude, r.request.longitude>> = calls[1].target

-----------------------------------------------------------------------------
(* TTSService._clean_text and the start of TTSService.generate_voice       *)
(* (services/tts_service.py), called on their own.                         *)

MaxTextLen == 4

\* texts of up to MaxTextLen characters
ShortTexts ==
    UNION { [1..n -> {"a", " ", "\n", "*", "_"}] : n \in 0..MaxTextLen }

\* texts around the length limit: n letters, then the tail
LongText(n, tail) == [i \in 1..n |-> "a"] \o tail

LongTexts ==
    { LongText(MaxCleanLength, <<>>),
      LongText(MaxCleanLength, <<"b">>),
      LongText(MaxCleanLength - 1, <<" ", "b", " ", "c">>),
      LongText(MaxCleanLength - 1, <<"#", " ", "b">>),
      LongText(MaxCleanLength + 3, <<>>) }

Texts == ShortTexts \cup LongTexts

\* generate_voice for a supported language: the text is cleaned; an empty
\* result returns None at once, any other goes to the gTTS engine, and the
\* call returns the file's path or None
GenerateVoice(text) ==
    IF CleanText(text) = <<>>
    THEN {[cleaned_text |-> <<>>, engines |-> {}, voice_file |-> {}]}
    ELSE {[cleaned_text |-> CleanText(text), engines |-> {"gtts"}, voice_file |-> f] :
              f \in {{}, {"voice.mp3"}}}

CleanTextInit ==
    /\ args \in [text : Texts]
    /\ returned = {}
    /\ HelperIdle

CallGenerateVoice ==
    /\ returned = {}
    /\ \E outcome \in GenerateVoice(args.text) : returned' = {outcome}
    /\ UNCHANGED <<weather, crop_type, advisory, image_data, validation,
                   model, confidence_threshold, detection, apiVars, args>>

CleanTextSpec == CleanTextInit /\ [][CallGenerateVoice]_vars

\* the cleaned text holds none of '*', '#', '_' and at most 1003 characters
C30_NoSpecialAndBounded ==
    \A r \in returned :
        /\ \A i \in 1..Len(r.cleaned_text) : r.cleaned_text[i] \notin {"*", "#", "_"}
        /\ Len(r.cleaned_text) <= MaxCleanLength + 3

\* it has no whitespace at its ends and no two whitespace characters in a row
C30_WhitespaceNormalised ==
    \A r \in returned :
        LET c == r.cleaned_text
        IN  /\ c # <<>> => (c[1] \notin Whitespace /\ c[Len(c)] \notin Whitespace)
            /\ \A i \in 1..(Len(c) - 1) : ~(c[i] \in Whitespace /\ c[i + 1] \in Whitespace)

\* cleaning it again changes nothing
C30_Idempotent ==
    \A r \in returned : CleanText(r.cleaned_text) = r.cleaned_text

\* an empty cleaned text makes generate_voice return None without any engine
C30_EmptyIsNone ==
    \A r \in returned :
        r.cleaned_text = <<>> => (r.engines = {} /\ r.voice_file = {})

\* C30: the result of _clean_text contains none of '*', '#', '_', has no
\* leading, trailing or consecutive whitespace and at most 1003 characters, and
\* cleaning it again gives the same text; generate_voice returns None without
\* calling a speech engine when the cleaned text is empty.
C30_CleanText ==
    /\ C30_NoSpecialAndBounded
    /\ C30_WhitespaceNormalised
    /\ C30_Idempotent
    /\ C30_EmptyIsNone

====
